---- MODULE Spec2Model ----
(***************************************************************************)
(* Agentic execution tracking of LLM Observatory: the ExecutionSpan        *)
(* builder and lifecycle, ExecutionResult validation                       *)
(* (crates/core/src/execution.rs) and the execution-context middleware of  *)
(* the analytics API (services/analytics-api/src/middleware/execution.rs). *)
(*                                                                         *)
(* Three specifications share the module:                                  *)
(*   Spec        one builder chain, build(), then operations on the span   *)
(*   SpecResult  ExecutionResult::new over bounded spans, then validate()  *)
(*   SpecMw      requests going through execution_context_middleware       *)
(***************************************************************************)
EXTENDS Integers, Sequences, FiniteSets, TLC

VARIABLES
    builder,    \* ExecutionSpanBuilder under construction
    phase,      \* "idle" | "building" | "built" | "failed"
    buildRes,   \* what build() returned (Result<ExecutionSpan>)
    span,       \* the built ExecutionSpan (owned, mutated by its operations)
    last,       \* the last span operation and what it returned
    nops,       \* number of span operations made
    now,        \* the clock read by Utc::now(), in ticks
    res,        \* the ExecutionResult under validation
    nval,       \* number of validate() calls made on res
    streak,     \* validate() calls made since res was created or its spans last changed
    nmut,       \* changes made to the spans of res after ExecutionResult::new
    config,     \* ExecutionMiddlewareConfig of the running service
    reqs,       \* per request: position, headers, extensions, response
    issued,     \* number of ids the uuid generator has handed out
    value,      \* the ExecutionSpan or ExecutionResult being serialized
    json,       \* the serde_json value it was written to
    back        \* what deserializing that value returned

spanVars == <<builder, phase, buildRes, span, last, nops, now>>
resVars == <<res, nval, streak, nmut>>
mwVars == <<config, reqs, issued>>
wireVars == <<value, json, back>>
vars == <<builder, phase, buildRes, span, last, nops, now, res, nval, streak, nmut, config, reqs, issued, value, json, back>>

----------------------------------------------------------------------------
(* Bounds of the model *)

\* fields and entries one builder chain may set
MaxSets == 5
\* operations made on one built span
MaxOps == 2
\* the clock runs from 0 to MaxTime ticks
MaxTime == 2
\* clock ticks per millisecond (chrono keeps sub-millisecond precision)
TicksPerMs == 2
\* agent spans handed to ExecutionResult::new
MaxAgents == 3
\* validate() calls on one result
MaxValidate == 2
\* changes made to the spans of a result after ExecutionResult::new
MaxMutations == 1
\* requests in flight at once
NReq == 2

----------------------------------------------------------------------------
(* Option<T> and Result<T, E> *)

None == [some |-> FALSE]
Some(x) == [some |-> TRUE, val |-> x]
Ok(x) == [ok |-> TRUE, val |-> x]
Err(e) == [ok |-> FALSE, err |-> e]

\* crate::Error::invalid_input(msg)
invalid_input(msg) == [variant |-> "InvalidInput", msg |-> msg]

\* HashMap::insert on a map kept as a set of <<key, value>> pairs
MapInsert(m, k, v) == {p \in m : p[1] # k} \cup {<<k, v>>}

\* serde_json::Value: null, strings, numbers, booleans, arrays, and objects
\* kept as sets of <<key, value>> pairs (serde_json's Map, one value per key)
JNull == [type |-> "null"]
JStr(x) == [type |-> "string", v |-> x]
JNum(n) == [type |-> "number", v |-> n]
JBool(b) == [type |-> "bool", v |-> b]
JArr(seq) == [type |-> "array", v |-> seq]
JObj(pairs) == [type |-> "object", v |-> pairs]

----------------------------------------------------------------------------
(* Time: DateTime<Utc> as a tick count *)

\* i64::unsigned_abs
unsigned_abs(i) == IF i < 0 THEN 0 - i ELSE i

\* chrono Duration::num_milliseconds of a difference of d ticks: whole
\* milliseconds, truncated toward zero
num_milliseconds(d) == IF d < 0 THEN 0 - ((0 - d) \div TicksPerMs) ELSE d \div TicksPerMs

\* end.signed_duration_since(start).num_milliseconds().unsigned_abs()
elapsed_ms(end, start) == unsigned_abs(num_milliseconds(end - start))

----------------------------------------------------------------------------
(* Artifact and ExecutionEvent *)

Artifact(id, agent_span_id) ==
    [artifact_id |-> id, agent_span_id |-> agent_span_id, name |-> "report",
     content_type |-> "text/plain", content_hash |-> "abc123", size_bytes |-> 5,
     content |-> [content_location |-> "inline", data |-> "hello"],
     created_at |-> 0, metadata |-> {}]

ExecutionEvent(name, timestamp, attributes) ==
    [name |-> name, timestamp |-> timestamp, attributes |-> attributes]

----------------------------------------------------------------------------
(* ExecutionSpanBuilder *)

\* ExecutionSpanBuilder::default()
DefaultBuilder ==
    [span_id |-> None, execution_id |-> None, parent_span_id |-> None,
     kind |-> None, repo_name |-> None, agent_name |-> None,
     status |-> "Running", start_time |-> None, end_time |-> None,
     artifacts |-> <<>>, events |-> <<>>, attributes |-> {},
     error_message |-> None]

set_span_id(b, id) == [b EXCEPT !.span_id = Some(id)]
set_execution_id(b, id) == [b EXCEPT !.execution_id = Some(id)]
set_parent_span_id(b, id) == [b EXCEPT !.parent_span_id = Some(id)]
set_kind(b, k) == [b EXCEPT !.kind = Some(k)]
set_repo_name(b, n) == [b EXCEPT !.repo_name = Some(n)]
set_agent_name(b, n) == [b EXCEPT !.agent_name = Some(n)]
set_status(b, s) == [b EXCEPT !.status = s]
set_start_time(b, t) == [b EXCEPT !.start_time = Some(t)]
set_end_time(b, t) == [b EXCEPT !.end_time = Some(t)]
add_artifact(b, a) == [b EXCEPT !.artifacts = Append(@, a)]
add_event(b, e) == [b EXCEPT !.events = Append(@, e)]
set_attribute(b, k, v) == [b EXCEPT !.attributes = MapInsert(@, k, v)]
set_error_message(b, m) == [b EXCEPT !.error_message = Some(m)]

\* A build() that asks for kind before parent_span_id
build_kind_first(b, uuid, t) ==
    IF ~b.execution_id.some THEN Err(invalid_input("execution_id is required"))
    ELSE IF ~b.kind.some THEN Err(invalid_input("kind is required"))
    ELSE IF ~b.parent_span_id.some THEN Err(invalid_input("parent_span_id is required"))
    ELSE IF ~b.repo_name.some THEN Err(invalid_input("repo_name is required"))
    ELSE IF b.kind.val = "Agent" /\ ~b.agent_name.some
         THEN Err(invalid_input("agent_name is required for agent spans"))
    ELSE Ok([span_id |-> IF b.span_id.some THEN b.span_id.val ELSE uuid,
             execution_id |-> b.execution_id.val,
             parent_span_id |-> b.parent_span_id.val,
             kind |-> b.kind.val,
             repo_name |-> b.repo_name.val,
             agent_name |-> b.agent_name,
             status |-> b.status,
             start_time |-> IF b.start_time.some THEN b.start_time.val ELSE t,
             end_time |-> b.end_time,
             duration_ms |-> IF b.end_time.some
                             THEN Some(elapsed_ms(b.end_time.val,
                                       IF b.start_time.some THEN b.start_time.val ELSE t))
                             ELSE None,
             artifacts |-> b.artifacts,
             events |-> b.events,
             attributes |-> b.attributes,
             error_message |-> b.error_message])

\* A build() that wants agent_name on every span, whatever its kind
build_agent_name_always(b, uuid, t) ==
    IF ~b.execution_id.some THEN Err(invalid_input("execution_id is required"))
    ELSE IF ~b.parent_span_id.some THEN Err(invalid_input("parent_span_id is required"))
    ELSE IF ~b.kind.some THEN Err(invalid_input("kind is required"))
    ELSE IF ~b.repo_name.some THEN Err(invalid_input("repo_name is required"))
    ELSE IF ~b.agent_name.some
         THEN Err(invalid_input("agent_name is required for agent spans"))
    ELSE Ok([span_id |-> IF b.span_id.some THEN b.span_id.val ELSE uuid,
             execution_id |-> b.execution_id.val,
             parent_span_id |-> b.parent_span_id.val,
             kind |-> b.kind.val,
             repo_name |-> b.repo_name.val,
             agent_name |-> b.agent_name,
             status |-> b.status,
             start_time |-> IF b.start_time.some THEN b.start_time.val ELSE t,
             end_time |-> b.end_time,
             duration_ms |-> IF b.end_time.some
                             THEN Some(elapsed_ms(b.end_time.val,
                                       IF b.start_time.some THEN b.start_time.val ELSE t))
                             ELSE None,
             artifacts |-> b.artifacts,
             events |-> b.events,
             attributes |-> b.attributes,
             error_message |-> b.error_message])

\* A build() that never computes duration_ms
build_no_duration(b, uuid, t) ==
    LET span_id == IF b.span_id.some THEN b.span_id.val ELSE uuid IN
    IF ~b.execution_id.some THEN Err(invalid_input("execution_id is required"))
    ELSE IF ~b.parent_span_id.some THEN Err(invalid_input("parent_span_id is required"))
    ELSE IF ~b.kind.some THEN Err(invalid_input("kind is required"))
    ELSE IF ~b.repo_name.some THEN Err(invalid_input("repo_name is required"))
    ELSE LET start_time == IF b.start_time.some THEN b.start_time.val ELSE t IN
         IF b.kind.val = "Agent" /\ ~b.agent_name.some
         THEN Err(invalid_input("agent_name is required for agent spans"))
         ELSE Ok([span_id |-> span_id,
                  execution_id |-> b.execution_id.val,
                  parent_span_id |-> b.parent_span_id.val,
                  kind |-> b.kind.val,
                  repo_name |-> b.repo_name.val,
                  agent_name |-> b.agent_name,
                  status |-> b.status,
                  start_time |-> start_time,
                  end_time |-> b.end_time,
                  duration_ms |-> None,
                  artifacts |-> b.artifacts,
                  events |-> b.events,
                  attributes |-> b.attributes,
                  error_message |-> b.error_message])

\* ExecutionSpanBuilder::build: uuid is what Uuid::new_v4() would return and
\* t what Utc::now() would return, should the builder need them
build(b, uuid, t) ==
    LET span_id == IF b.span_id.some THEN b.span_id.val ELSE uuid IN
    IF ~b.execution_id.some THEN Err(invalid_input("execution_id is required"))
    ELSE IF ~b.parent_span_id.some THEN Err(invalid_input("parent_span_id is required"))
    ELSE IF ~b.kind.some THEN Err(invalid_input("kind is required"))
    ELSE IF ~b.repo_name.some THEN Err(invalid_input("repo_name is required"))
    ELSE LET start_time == IF b.start_time.some THEN b.start_time.val ELSE t IN
         IF b.kind.val = "Agent" /\ ~b.agent_name.some
         THEN Err(invalid_input("agent_name is required for agent spans"))
         ELSE LET duration_ms == IF b.end_time.some
                                 THEN Some(elapsed_ms(b.end_time.val, start_time))
                                 ELSE None
              IN Ok([span_id |-> span_id,
                     execution_id |-> b.execution_id.val,
                     parent_span_id |-> b.parent_span_id.val,
                     kind |-> b.kind.val,
                     repo_name |-> b.repo_name.val,
                     agent_name |-> b.agent_name,
                     status |-> b.status,
                     start_time |-> start_time,
                     end_time |-> b.end_time,
                     duration_ms |-> duration_ms,
                     artifacts |-> b.artifacts,
                     events |-> b.events,
                     attributes |-> b.attributes,
                     error_message |-> b.error_message])

----------------------------------------------------------------------------
(* ExecutionSpan operations *)

\* A complete() that keeps the sign of the elapsed time
complete_signed(s, t) ==
    [s EXCEPT !.end_time = Some(t),
              !.duration_ms = Some(num_milliseconds(t - s.start_time)),
              !.status = "Completed"]

\* A complete() that leaves a span that is already Completed as it is
complete_once(s, t) ==
    IF s.status = "Completed" THEN s
    ELSE [s EXCEPT !.end_time = Some(t),
                   !.duration_ms = Some(elapsed_ms(t, s.start_time)),
                   !.status = "Completed"]

\* ExecutionSpan::complete
complete(s, t) ==
    [s EXCEPT !.end_time = Some(t),
              !.duration_ms = Some(elapsed_ms(t, s.start_time)),
              !.status = "Completed"]

\* A fail() that does not store the error text
fail_drops_message(s, error, t) ==
    [s EXCEPT !.end_time = Some(t),
              !.duration_ms = Some(elapsed_ms(t, s.start_time)),
              !.status = "Failed"]

\* A fail() that marks the span Cancelled
fail_cancels(s, error, t) ==
    [s EXCEPT !.end_time = Some(t),
              !.duration_ms = Some(elapsed_ms(t, s.start_time)),
              !.status = "Cancelled",
              !.error_message = Some(error)]

\* ExecutionSpan::fail
fail(s, error, t) ==
    [s EXCEPT !.end_time = Some(t),
              !.duration_ms = Some(elapsed_ms(t, s.start_time)),
              !.status = "Failed",
              !.error_message = Some(error)]

\* An attach_artifact() without the kind check
attach_artifact_unchecked(s, artifact) ==
    [span |-> [s EXCEPT !.artifacts = Append(@, artifact)], ret |-> Ok("unit")]

\* An attach_artifact() that turns the span into an Agent span to take the
\* artifact
attach_artifact_converts(s, artifact) ==
    [span |-> [s EXCEPT !.kind = "Agent", !.artifacts = Append(@, artifact)],
     ret |-> Ok("unit")]

\* ExecutionSpan::attach_artifact: the span afterwards and the value returned
attach_artifact(s, artifact) ==
    IF s.kind # "Agent"
    THEN [span |-> s,
          ret |-> Err(invalid_input("Artifacts can only be attached to agent spans"))]
    ELSE [span |-> [s EXCEPT !.artifacts = Append(@, artifact)], ret |-> Ok("unit")]

\* A record_event() that puts the new event in front
record_event_in_front(s, name, attributes, t) ==
    [s EXCEPT !.events = <<ExecutionEvent(name, t, attributes)>> \o @]

\* ExecutionSpan::record_event
record_event(s, name, attributes, t) ==
    [s EXCEPT !.events = Append(@, ExecutionEvent(name, t, attributes))]

----------------------------------------------------------------------------
(* ExecutionResult *)

\* agent_spans.iter().map(|s| s.artifacts.len()).sum()
RECURSIVE sum_artifacts(_)
sum_artifacts(spans) ==
    IF spans = <<>> THEN 0 ELSE Len(Head(spans).artifacts) + sum_artifacts(Tail(spans))

\* ExecutionResult::new
new_result(repo_span, agent_spans) ==
    [execution_id |-> repo_span.execution_id,
     total_duration_ms |-> repo_span.duration_ms,
     total_artifacts |-> sum_artifacts(agent_spans),
     repo_span |-> repo_span,
     agent_spans |-> agent_spans,
     valid |-> FALSE,
     validation_errors |-> <<>>]

MsgMissingParent == "Repo span is missing parent_span_id from caller"
MsgNoAgentSpans == "No agent spans emitted -- execution has no evidence of agent work"
MsgWrongParent(agent_span, repo_span) ==
    "Agent span " \o agent_span.span_id \o " has parent_span_id " \o agent_span.parent_span_id
    \o " but expected repo span " \o repo_span.span_id
MsgDuplicate(agent_span) == "Duplicate agent span_id: " \o agent_span.span_id

\* The loop over agent_spans that checks parent_span_id, from element i on
RECURSIVE parent_errors(_, _, _)
parent_errors(agent_spans, repo_span, i) ==
    IF i > Len(agent_spans) THEN <<>>
    ELSE (IF agent_spans[i].parent_span_id # repo_span.span_id
          THEN <<MsgWrongParent(agent_spans[i], repo_span)>>
          ELSE <<>>)
         \o parent_errors(agent_spans, repo_span, i + 1)

\* The loop over agent_spans that inserts span ids into seen_ids, from element i on
RECURSIVE duplicate_errors(_, _, _)
duplicate_errors(agent_spans, i, seen_ids) ==
    IF i > Len(agent_spans) THEN <<>>
    ELSE IF agent_spans[i].span_id \in seen_ids
         THEN <<MsgDuplicate(agent_spans[i])>>
              \o duplicate_errors(agent_spans, i + 1, seen_ids)
         ELSE duplicate_errors(agent_spans, i + 1, seen_ids \cup {agent_spans[i].span_id})

\* The four rules of validate(), pushing onto the errors vector e0
run_rules(r, e0) ==
    LET e1 == IF r.repo_span.parent_span_id = "" THEN Append(e0, MsgMissingParent) ELSE e0
        e2 == IF Len(r.agent_spans) = 0 THEN Append(e1, MsgNoAgentSpans) ELSE e1
        e3 == e2 \o parent_errors(r.agent_spans, r.repo_span, 1)
    IN e3 \o duplicate_errors(r.agent_spans, 1, {})

\* The end of validate(): valid and the derived totals
finish_validate(r, errors) ==
    [r EXCEPT !.validation_errors = errors,
              !.valid = (errors = <<>>),
              !.total_artifacts = sum_artifacts(r.agent_spans),
              !.total_duration_ms = r.repo_span.duration_ms]

\* A validate() that leaves the totals as they were
validate_stale_totals(r) ==
    LET errors == run_rules(r, <<>>) IN
    [r EXCEPT !.validation_errors = errors, !.valid = (errors = <<>>)]

\* A validate() without the rule on the repo span's parent_span_id
validate_ignores_empty_parent(r) ==
    LET e2 == IF Len(r.agent_spans) = 0 THEN <<MsgNoAgentSpans>> ELSE <<>>
        e3 == e2 \o parent_errors(r.agent_spans, r.repo_span, 1)
    IN finish_validate(r, e3 \o duplicate_errors(r.agent_spans, 1, {}))

\* A validate() without the duplicate scan
validate_no_duplicate_scan(r) ==
    LET e1 == IF r.repo_span.parent_span_id = "" THEN <<MsgMissingParent>> ELSE <<>>
        e2 == IF Len(r.agent_spans) = 0 THEN Append(e1, MsgNoAgentSpans) ELSE e1
    IN finish_validate(r, e2 \o parent_errors(r.agent_spans, r.repo_span, 1))

\* A validate() that returns at the first rule that fails
validate_fail_fast(r) ==
    LET all == run_rules(r, <<>>) IN
    finish_validate(r, IF all = <<>> THEN <<>> ELSE <<Head(all)>>)

\* A validate() that does not clear validation_errors first
validate_no_clear(r) == finish_validate(r, run_rules(r, r.validation_errors))

\* ExecutionResult::validate
validate(r) == finish_validate(r, run_rules(r, <<>>))

----------------------------------------------------------------------------
(* The execution-context middleware *)

\* A header value is a sequence of bytes; the text of one visible-ASCII byte
Chr(b) ==
    CASE b = 49 -> "1" [] b = 99 -> "c" [] b = 101 -> "e" [] b = 114 -> "r" [] OTHER -> "?"

\* HeaderValue::to_str().ok(): the text if every byte is visible ASCII (32..126,
\* or tab), else None
RECURSIVE bytes_text(_)
bytes_text(v) == IF v = <<>> THEN "" ELSE Chr(Head(v)) \o bytes_text(Tail(v))
to_str(v) ==
    IF \A i \in 1..Len(v) : (v[i] >= 32 /\ v[i] < 127) \/ v[i] = 9
    THEN Some(bytes_text(v))
    ELSE None

\* req.headers().get(name).and_then(|v| v.to_str().ok()).map(|s| s.to_string())
header_string(headers, name) ==
    IF headers[name].some THEN to_str(headers[name].val) ELSE None

X_EXECUTION_ID == "x-execution-id"
X_EXECUTION_PARENT_SPAN_ID == "x-execution-parent-span-id"
X_EXECUTION_REPO_NAME == "x-execution-repo-name"

\* ExecutionMiddlewareConfig::new / ::permissive
config_new(repo_name) == [repo_name |-> repo_name, enforce |-> TRUE]
config_permissive(repo_name) == [repo_name |-> repo_name, enforce |-> FALSE]

\* ExecutionError and its into_response at time t
ExecutionError(status, code, message) == [status |-> status, code |-> code, message |-> message]
into_response(e, t) ==
    [status |-> e.status,
     body |-> [error |-> [code |-> e.code, message |-> e.message],
               meta |-> [timestamp |-> t]]]

MissingHeader(code, header) ==
    ExecutionError(400, code, "Header '" \o header \o "' is required for all operations")

\* Uuid::new_v4().to_string(), for a generator that has handed out n ids
new_v4(n) == "uuid-" \o ToString(n + 1)

\* Request extensions: the typed slots the middleware fills
NoExtensions == [ctx |-> None, span |-> None]

\* An injection that inserts the ExecutionContext and forgets the repo span
inject_context_only(exec_id, parent_id, repo_span_id, repo_name, repo_span) ==
    [ctx |-> Some([execution_id |-> exec_id, parent_span_id |-> parent_id,
                   repo_span_id |-> Some(repo_span_id), repo_name |-> repo_name]),
     span |-> None]

\* The ExecutionContext and the insertion of both values into the extensions
inject(exec_id, parent_id, repo_span_id, repo_name, repo_span) ==
    [ctx |-> Some([execution_id |-> exec_id, parent_span_id |-> parent_id,
                   repo_span_id |-> Some(repo_span_id), repo_name |-> repo_name]),
     span |-> Some(repo_span)]

\* A repo span builder chain that does not set kind
repo_chain_without_kind(repo_span_id, exec_id, parent_id, repo_name) ==
    set_repo_name(set_parent_span_id(set_execution_id(
        set_span_id(DefaultBuilder, repo_span_id), exec_id), parent_id), repo_name)

\* The repo span builder chain of the middleware (status set in enforcing mode only)
repo_chain(repo_span_id, exec_id, parent_id, repo_name) ==
    set_repo_name(set_kind(set_parent_span_id(set_execution_id(
        set_span_id(DefaultBuilder, repo_span_id), exec_id), parent_id), "Repo"), repo_name)

Reject(e) == [outcome |-> "reject", error |-> e, ext |-> NoExtensions, uuids |-> 0]
CallNext(ext, uuids) == [outcome |-> "next", ext |-> ext, uuids |-> uuids]

\* A middleware that rejects in permissive mode too
middleware_always_enforcing(cfg, headers, n, t) ==
    LET execution_id == header_string(headers, X_EXECUTION_ID)
        parent_span_id == header_string(headers, X_EXECUTION_PARENT_SPAN_ID)
        repo_name_override == header_string(headers, X_EXECUTION_REPO_NAME)
        repo_name == IF repo_name_override.some THEN repo_name_override.val ELSE cfg.repo_name
    IN IF ~execution_id.some
       THEN Reject(MissingHeader("MISSING_EXECUTION_ID", X_EXECUTION_ID))
       ELSE IF ~parent_span_id.some
       THEN Reject(MissingHeader("MISSING_PARENT_SPAN_ID", X_EXECUTION_PARENT_SPAN_ID))
       ELSE CallNext(inject(execution_id.val, parent_span_id.val, new_v4(n), repo_name,
                            build(set_status(repo_chain(new_v4(n), execution_id.val,
                                  parent_span_id.val, repo_name), "Running"), new_v4(n), t).val), 1)

\* A middleware that lets a request without headers through in enforcing mode
middleware_never_enforcing(cfg, headers, n, t) ==
    LET execution_id == header_string(headers, X_EXECUTION_ID)
        parent_span_id == header_string(headers, X_EXECUTION_PARENT_SPAN_ID)
        repo_name_override == header_string(headers, X_EXECUTION_REPO_NAME)
        repo_name == IF repo_name_override.some THEN repo_name_override.val ELSE cfg.repo_name
    IN IF execution_id.some /\ parent_span_id.some
       THEN CallNext(inject(execution_id.val, parent_span_id.val, new_v4(n), repo_name,
                            build(repo_chain(new_v4(n), execution_id.val,
                                  parent_span_id.val, repo_name), new_v4(n), t).val), 1)
       ELSE CallNext(NoExtensions, 0)

\* A middleware that names the repo span after the configuration, whatever the
\* x-execution-repo-name header says
middleware_ignores_override(cfg, headers, n, t) ==
    LET execution_id == header_string(headers, X_EXECUTION_ID)
        parent_span_id == header_string(headers, X_EXECUTION_PARENT_SPAN_ID)
        repo_name == cfg.repo_name
    IN IF cfg.enforce /\ ~execution_id.some
       THEN Reject(MissingHeader("MISSING_EXECUTION_ID", X_EXECUTION_ID))
       ELSE IF cfg.enforce /\ ~parent_span_id.some
       THEN Reject(MissingHeader("MISSING_PARENT_SPAN_ID", X_EXECUTION_PARENT_SPAN_ID))
       ELSE IF execution_id.some /\ parent_span_id.some
       THEN CallNext(inject(execution_id.val, parent_span_id.val, new_v4(n), repo_name,
                            build(repo_chain(new_v4(n), execution_id.val,
                                  parent_span_id.val, repo_name), new_v4(n), t).val), 1)
       ELSE CallNext(NoExtensions, 0)

\* A middleware that derives the repo span id from the execution id instead of
\* drawing a fresh one
middleware_span_id_from_execution_id(cfg, headers, n, t) ==
    LET execution_id == header_string(headers, X_EXECUTION_ID)
        parent_span_id == header_string(headers, X_EXECUTION_PARENT_SPAN_ID)
        repo_name_override == header_string(headers, X_EXECUTION_REPO_NAME)
        repo_name == IF repo_name_override.some THEN repo_name_override.val ELSE cfg.repo_name
    IN IF cfg.enforce /\ ~execution_id.some
       THEN Reject(MissingHeader("MISSING_EXECUTION_ID", X_EXECUTION_ID))
       ELSE IF cfg.enforce /\ ~parent_span_id.some
       THEN Reject(MissingHeader("MISSING_PARENT_SPAN_ID", X_EXECUTION_PARENT_SPAN_ID))
       ELSE IF execution_id.some /\ parent_span_id.some
       THEN LET repo_span_id == "span-of-" \o execution_id.val IN
            CallNext(inject(execution_id.val, parent_span_id.val, repo_span_id, repo_name,
                            build(repo_chain(repo_span_id, execution_id.val,
                                  parent_span_id.val, repo_name), new_v4(n), t).val), 1)
       ELSE CallNext(NoExtensions, 0)

\* execution_context_middleware up to its call of next.run(req): cfg the
\* configuration, headers the request's headers, n the ids the uuid generator
\* has handed out, t the clock. Returns the rejection, or the extensions the
\* request carries into the wrapped handler, and the number of ids drawn.
execution_context_middleware(cfg, headers, n, t) ==
    LET execution_id == header_string(headers, X_EXECUTION_ID)
        parent_span_id == header_string(headers, X_EXECUTION_PARENT_SPAN_ID)
        repo_name_override == header_string(headers, X_EXECUTION_REPO_NAME)
        repo_name == IF repo_name_override.some THEN repo_name_override.val ELSE cfg.repo_name
        repo_span_id == new_v4(n)
    IN IF cfg.enforce
       THEN IF ~execution_id.some
            THEN Reject(MissingHeader("MISSING_EXECUTION_ID", X_EXECUTION_ID))
            ELSE IF ~parent_span_id.some
            THEN Reject(MissingHeader("MISSING_PARENT_SPAN_ID", X_EXECUTION_PARENT_SPAN_ID))
            ELSE LET exec_id == execution_id.val
                     parent_id == parent_span_id.val
                     built == build(set_status(repo_chain(repo_span_id, exec_id, parent_id,
                                                          repo_name), "Running"),
                                    new_v4(n + 1), t)
                 IN IF ~built.ok
                    THEN [outcome |-> "reject",
                          error |-> ExecutionError(500, "EXECUTION_SPAN_CREATION_FAILED",
                                                   "Failed to create repo span: " \o built.err.msg),
                          ext |-> NoExtensions, uuids |-> 1]
                    ELSE CallNext(inject(exec_id, parent_id, repo_span_id, repo_name,
                                         built.val), 1)
       ELSE IF execution_id.some /\ parent_span_id.some
            THEN LET exec_id == execution_id.val
                     parent_id == parent_span_id.val
                     built == build(repo_chain(repo_span_id, exec_id, parent_id, repo_name),
                                    new_v4(n + 1), t)
                 IN IF built.ok
                    THEN CallNext(inject(exec_id, parent_id, repo_span_id, repo_name,
                                         built.val), 1)
                    ELSE CallNext(NoExtensions, 1)
            ELSE CallNext(NoExtensions, 0)

MissingContext ==
    ExecutionError(400, "MISSING_EXECUTION_CONTEXT",
        "Execution context not found. Ensure execution middleware is applied and x-execution-id / x-execution-parent-span-id headers are provided.")

\* An extractor that goes by the repo span instead of the ExecutionContext
from_request_parts_by_span(ext) ==
    IF ext.span.some /\ ext.span.val.parent_span_id # ""
    THEN Ok(ext.ctx.val)
    ELSE Err(MissingContext)

\* ReqExecutionContext::from_request_parts
from_request_parts(ext) ==
    IF ext.ctx.some THEN Ok(ext.ctx.val) ELSE Err(MissingContext)

----------------------------------------------------------------------------
(* Values the environment and the callers draw from *)

Kinds == {"Repo", "Agent"}
Statuses == {"Running", "Completed", "Failed", "Cancelled"}
Times == 0..MaxTime
\* ids Uuid::new_v4() may return
Uuids == {"uuid-1", "uuid-2"}
SpanIds == {"s1"}
ParentIds == {"", "p1"}
ArtifactInputs == {Artifact("a1", "s1"), Artifact("a2", "elsewhere")}
ErrorTexts == {"boom"}
EventAttributes == {MapInsert({}, "step", JStr("1"))}

NoOp == [op |-> "none"]

\* The state of the parts a specification does not exercise
SpanIdle ==
    /\ builder = DefaultBuilder /\ phase = "idle" /\ buildRes = None
    /\ span = None /\ last = NoOp /\ nops = 0 /\ now = 0
ResIdle == res = None /\ nval = 0 /\ streak = 0 /\ nmut = 0
MwIdle == config = None /\ reqs = <<>> /\ issued = 0
WireIdle == value = None /\ json = None /\ back = None

----------------------------------------------------------------------------
(* The JSON wire form (serde derive, serde_json) *)

HasKey(w, k) == \E p \in w : p[1] = k
\* the value under key k, null standing for a key that is not there
Get(w, k) == IF HasKey(w, k) THEN (CHOOSE p \in w : p[1] = k)[2] ELSE JNull

\* a field that is always written
Field(k, j) == {<<k, j>>}
\* Option<T>: None is null, Some(x) is x
ser_option_string(o) == IF o.some THEN JStr(o.val) ELSE JNull
ser_option_u64(o) == IF o.some THEN JNum(o.val) ELSE JNull
\* an Option field o, serialized as j, under
\* skip_serializing_if = "Option::is_none"
SkipIfNone(k, o, j) == IF o.some THEN {<<k, j>>} ELSE {}

de_error(msg) == Err([variant |-> "serde_json::Error", msg |-> msg])
de_string(j) == IF j.type = "string" THEN Ok(j.v) ELSE de_error("expected a string")
de_u64(j) ==
    IF j.type = "number" /\ j.v >= 0 THEN Ok(j.v) ELSE de_error("expected u64")
de_bool(j) == IF j.type = "bool" THEN Ok(j.v) ELSE de_error("expected a boolean")

\* What a struct's field k comes to, r being what the field's deserializer
\* makes of the value under k: a required field, an Option field, and a
\* field under serde(default)
de_required(w, k, r) ==
    IF HasKey(w, k) THEN r ELSE de_error("missing field " \o k)
de_option(w, k, r) ==
    IF ~HasKey(w, k) \/ Get(w, k).type = "null" THEN Ok(None)
    ELSE IF r.ok THEN Ok(Some(r.val)) ELSE r
de_default(w, k, r, default) ==
    IF HasKey(w, k) THEN r ELSE Ok(default)

\* The derived visit_map over the object w, R[k] being what field k comes
\* to. The values are deserialized as the keys are walked, in the order of
\* serde_json's Map (keys: the struct's field names, sorted), and the walk
\* stops at the first value that is invalid; a field that is missing is
\* reported only after the walk, in declaration order (fields). A key that
\* names no field is ignored.
de_struct(w, keys, fields, R) ==
    LET invalid == {i \in 1..Len(keys) : HasKey(w, keys[i]) /\ ~R[keys[i]].ok}
        missing == {i \in 1..Len(fields) : ~HasKey(w, fields[i]) /\ ~R[fields[i]].ok}
    IN IF invalid # {}
       THEN R[keys[CHOOSE i \in invalid : \A n \in invalid : i <= n]]
       ELSE IF missing # {}
       THEN R[fields[CHOOSE i \in missing : \A n \in missing : i <= n]]
       ELSE Ok([k \in {fields[i] : i \in 1..Len(fields)} |-> R[k].val])

\* The elements of the array a under the field names of their positions
Positional(fields, a) ==
    {<<fields[i], a[i]>> : i \in {n \in 1..Len(fields) : n <= Len(a)}}

\* The derived visit_seq over the array a, R[k] being what field k comes to
\* when it is read from its position: the first element that is invalid, or
\* the first position the array does not have, unless its field is under
\* serde(default); serde_json then refuses elements past the last field.
de_struct_seq(a, fields, defaulted, R) ==
    LET bad == {i \in 1..Len(fields) :
                   IF i <= Len(a) THEN ~R[fields[i]].ok ELSE fields[i] \notin defaulted}
        first == CHOOSE i \in bad : \A n \in bad : i <= n
    IN IF bad # {}
       THEN IF first <= Len(a) THEN R[fields[first]]
            ELSE de_error("invalid length")
       ELSE IF Len(a) > Len(fields) THEN de_error("invalid length")
       ELSE Ok([k \in {fields[i] : i \in 1..Len(fields)} |-> R[k].val])

\* an array, each element already deserialized
de_seq(rs) ==
    LET bad == {i \in 1..Len(rs) : ~rs[i].ok} IN
    IF bad # {}
    THEN rs[CHOOSE i \in bad : \A n \in bad : i <= n]
    ELSE Ok([i \in 1..Len(rs) |-> rs[i].val])

\* DateTime<Utc> as its RFC 3339 text: the instant written out in full, so
\* that two instants have the same text only if they are the same instant
rfc3339(t) == "1970-01-01T00:00:00+" \o ToString(t) \o "Z"
parse_rfc3339(j) ==
    IF j.type = "string" /\ \E t \in Times : rfc3339(t) = j.v
    THEN Ok(CHOOSE t \in Times : rfc3339(t) = j.v)
    ELSE de_error("invalid date-time")
ser_time(t) == JStr(rfc3339(t))
ser_option_time(o) == IF o.some THEN ser_time(o.val) ELSE JNull

\* HashMap<String, serde_json::Value>: an object of the entries, each value
\* the serde_json::Value it is; any object is read as a map
ser_map(m) == JObj(m)
de_map(j) ==
    IF j.type = "object" THEN Ok(j.v) ELSE de_error("expected a map")

\* An enum of unit variants from serde_json: the variant's name as a string,
\* or as the only key of an object, its value then having to be null (unit)
de_enum(j) ==
    IF j.type = "string" THEN Ok([variant |-> j.v, unit |-> Ok(j.v)])
    ELSE IF j.type = "object"
    THEN IF Cardinality(j.v) = 1
         THEN LET p == CHOOSE p \in j.v : TRUE
              IN Ok([variant |-> p[1],
                     unit |-> IF p[2].type = "null" THEN Ok(p[1])
                              ELSE de_error("expected unit variant")])
         ELSE de_error("expected map with a single key")
    ELSE de_error("expected string or map")

\* ExecutionSpanKind, rename_all = "snake_case"
ser_kind(k) == JStr(IF k = "Repo" THEN "repo" ELSE "agent")
de_kind(j) ==
    LET e == de_enum(j) IN
    IF ~e.ok THEN e
    ELSE IF e.val.variant \notin {"repo", "agent"}
    THEN de_error("unknown variant of ExecutionSpanKind")
    ELSE IF ~e.val.unit.ok THEN e.val.unit
    ELSE Ok(IF e.val.variant = "repo" THEN "Repo" ELSE "Agent")

\* ExecutionSpanStatus, rename_all = "UPPERCASE"
ser_status(s) ==
    JStr(CASE s = "Running" -> "RUNNING"
           [] s = "Completed" -> "COMPLETED"
           [] s = "Failed" -> "FAILED"
           [] s = "Cancelled" -> "CANCELLED")
de_status(j) ==
    LET e == de_enum(j) IN
    IF ~e.ok THEN e
    ELSE IF e.val.variant \notin {"RUNNING", "COMPLETED", "FAILED", "CANCELLED"}
    THEN de_error("unknown variant of ExecutionSpanStatus")
    ELSE IF ~e.val.unit.ok THEN e.val.unit
    ELSE Ok(CASE e.val.variant = "RUNNING" -> "Running"
              [] e.val.variant = "COMPLETED" -> "Completed"
              [] e.val.variant = "FAILED" -> "Failed"
              [] e.val.variant = "CANCELLED" -> "Cancelled")

\* ArtifactContent, tag = "content_location", flattened into Artifact
ser_content(c) ==
    Field("content_location", JStr(c.content_location))
    \cup (IF c.content_location = "inline"
          THEN Field("data", JStr(c.data))
          ELSE Field("uri", JStr(c.uri)))
\* c: the entries of the Artifact object that are no field of Artifact. The
\* tag's value names the variant, or is the variant's index.
de_content(c) ==
    LET j == Get(c, "content_location")
        tag == IF j.type = "string"
               THEN IF j.v \in {"inline", "reference"} THEN Ok(j.v)
                    ELSE de_error("unknown variant of ArtifactContent")
               ELSE IF j.type = "number" /\ j.v >= 0
               THEN IF j.v = 0 THEN Ok("inline")
                    ELSE IF j.v = 1 THEN Ok("reference")
                    ELSE de_error("invalid variant index")
               ELSE de_error("expected variant identifier")
        data == de_required(c, "data", de_string(Get(c, "data")))
        uri == de_required(c, "uri", de_string(Get(c, "uri")))
    IN IF ~HasKey(c, "content_location") THEN de_error("missing field content_location")
       ELSE IF ~tag.ok THEN tag
       ELSE IF tag.val = "inline"
       THEN IF data.ok THEN Ok([content_location |-> "inline", data |-> data.val])
            ELSE data
       ELSE IF uri.ok THEN Ok([content_location |-> "reference", uri |-> uri.val])
            ELSE uri

\* Artifact
serialize_artifact(a) ==
    JObj(Field("artifact_id", JStr(a.artifact_id))
         \cup Field("agent_span_id", JStr(a.agent_span_id))
         \cup Field("name", JStr(a.name))
         \cup Field("content_type", JStr(a.content_type))
         \cup Field("content_hash", JStr(a.content_hash))
         \cup Field("size_bytes", JNum(a.size_bytes))
         \cup ser_content(a.content)
         \cup Field("created_at", ser_time(a.created_at))
         \cup Field("metadata", ser_map(a.metadata)))
\* A struct with a flattened field is read from an object only: its own
\* fields as the keys are walked (keys: their names, sorted), the missing
\* ones next, in declaration order (fields), and content last, from the
\* entries under the other keys
deserialize_artifact(j) ==
    LET w == IF j.type = "object" THEN j.v ELSE {}
        fields == <<"artifact_id", "agent_span_id", "name", "content_type",
                    "content_hash", "size_bytes", "created_at", "metadata">>
        keys == <<"agent_span_id", "artifact_id", "content_hash", "content_type",
                  "created_at", "metadata", "name", "size_bytes">>
        R == [artifact_id |-> de_required(w, "artifact_id", de_string(Get(w, "artifact_id"))),
              agent_span_id |-> de_required(w, "agent_span_id", de_string(Get(w, "agent_span_id"))),
              name |-> de_required(w, "name", de_string(Get(w, "name"))),
              content_type |-> de_required(w, "content_type", de_string(Get(w, "content_type"))),
              content_hash |-> de_required(w, "content_hash", de_string(Get(w, "content_hash"))),
              size_bytes |-> de_required(w, "size_bytes", de_u64(Get(w, "size_bytes"))),
              created_at |-> de_required(w, "created_at", parse_rfc3339(Get(w, "created_at"))),
              metadata |-> de_default(w, "metadata", de_map(Get(w, "metadata")), {})]
        own == de_struct(w, keys, fields, R)
        content == de_content({p \in w : p[1] \notin {fields[i] : i \in 1..Len(fields)}})
    IN IF j.type # "object" THEN de_error("expected an object")
       ELSE IF ~own.ok THEN own
       ELSE IF ~content.ok THEN content
       ELSE Ok([k \in {fields[i] : i \in 1..Len(fields)} \cup {"content"} |->
                   IF k = "content" THEN content.val ELSE own.val[k]])

\* ExecutionEvent
serialize_event(e) ==
    JObj(Field("name", JStr(e.name))
         \cup Field("timestamp", ser_time(e.timestamp))
         \cup Field("attributes", ser_map(e.attributes)))
\* from an object (keys: the field names, sorted), or from an array of the
\* fields in declaration order (fields)
deserialize_event(j) ==
    LET fields == <<"name", "timestamp", "attributes">>
        keys == <<"attributes", "name", "timestamp">>
        w == IF j.type = "object" THEN j.v
             ELSE IF j.type = "array" THEN Positional(fields, j.v)
             ELSE {}
        R == [name |-> de_required(w, "name", de_string(Get(w, "name"))),
              timestamp |-> de_required(w, "timestamp", parse_rfc3339(Get(w, "timestamp"))),
              attributes |-> de_default(w, "attributes", de_map(Get(w, "attributes")), {})]
    IN IF j.type = "object" THEN de_struct(w, keys, fields, R)
       ELSE IF j.type = "array" THEN de_struct_seq(j.v, fields, {"attributes"}, R)
       ELSE de_error("expected an object")

ser_artifacts(seq) == JArr([i \in 1..Len(seq) |-> serialize_artifact(seq[i])])
de_artifacts(j) ==
    IF j.type # "array" THEN de_error("expected an array")
    ELSE de_seq([i \in 1..Len(j.v) |-> deserialize_artifact(j.v[i])])
ser_events(seq) == JArr([i \in 1..Len(seq) |-> serialize_event(seq[i])])
de_events(j) ==
    IF j.type # "array" THEN de_error("expected an array")
    ELSE de_seq([i \in 1..Len(j.v) |-> deserialize_event(j.v[i])])

\* The fields of ExecutionSpan that are written whatever their value
span_plain_fields(s) ==
    Field("span_id", JStr(s.span_id))
    \cup Field("execution_id", JStr(s.execution_id))
    \cup Field("parent_span_id", JStr(s.parent_span_id))
    \cup Field("kind", ser_kind(s.kind))
    \cup Field("repo_name", JStr(s.repo_name))
    \cup Field("status", ser_status(s.status))
    \cup Field("start_time", ser_time(s.start_time))
    \cup Field("artifacts", ser_artifacts(s.artifacts))
    \cup Field("events", ser_events(s.events))
    \cup Field("attributes", ser_map(s.attributes))

\* A serializer of ExecutionSpan without the skip_serializing_if attributes
serialize_span_with_nulls(s) ==
    JObj(span_plain_fields(s)
         \cup Field("agent_name", ser_option_string(s.agent_name))
         \cup Field("end_time", ser_option_time(s.end_time))
         \cup Field("duration_ms", ser_option_u64(s.duration_ms))
         \cup Field("error_message", ser_option_string(s.error_message)))

\* serde_json::to_value of an ExecutionSpan
serialize_span(s) ==
    JObj(span_plain_fields(s)
         \cup SkipIfNone("agent_name", s.agent_name, ser_option_string(s.agent_name))
         \cup SkipIfNone("end_time", s.end_time, ser_option_time(s.end_time))
         \cup SkipIfNone("duration_ms", s.duration_ms, ser_option_u64(s.duration_ms))
         \cup SkipIfNone("error_message", s.error_message, ser_option_string(s.error_message)))

\* serde_json::from_value::<ExecutionSpan>: from an object (keys: the
\* field names, sorted), or from an array of the fields in declaration
\* order (fields)
deserialize_span(j) ==
    LET fields == <<"span_id", "execution_id", "parent_span_id", "kind", "repo_name",
                    "agent_name", "status", "start_time", "end_time", "duration_ms",
                    "artifacts", "events", "attributes", "error_message">>
        keys == <<"agent_name", "artifacts", "attributes", "duration_ms", "end_time",
                  "error_message", "events", "execution_id", "kind", "parent_span_id",
                  "repo_name", "span_id", "start_time", "status">>
        w == IF j.type = "object" THEN j.v
             ELSE IF j.type = "array" THEN Positional(fields, j.v)
             ELSE {}
        R == [span_id |-> de_required(w, "span_id", de_string(Get(w, "span_id"))),
              execution_id |-> de_required(w, "execution_id", de_string(Get(w, "execution_id"))),
              parent_span_id |-> de_required(w, "parent_span_id", de_string(Get(w, "parent_span_id"))),
              kind |-> de_required(w, "kind", de_kind(Get(w, "kind"))),
              repo_name |-> de_required(w, "repo_name", de_string(Get(w, "repo_name"))),
              agent_name |-> de_option(w, "agent_name", de_string(Get(w, "agent_name"))),
              status |-> de_required(w, "status", de_status(Get(w, "status"))),
              start_time |-> de_required(w, "start_time", parse_rfc3339(Get(w, "start_time"))),
              end_time |-> de_option(w, "end_time", parse_rfc3339(Get(w, "end_time"))),
              duration_ms |-> de_option(w, "duration_ms", de_u64(Get(w, "duration_ms"))),
              artifacts |-> de_default(w, "artifacts", de_artifacts(Get(w, "artifacts")), <<>>),
              events |-> de_default(w, "events", de_events(Get(w, "events")), <<>>),
              attributes |-> de_default(w, "attributes", de_map(Get(w, "attributes")), {}),
              error_message |-> de_option(w, "error_message", de_string(Get(w, "error_message")))]
    IN IF j.type = "object" THEN de_struct(w, keys, fields, R)
       ELSE IF j.type = "array"
       THEN de_struct_seq(j.v, fields, {"artifacts", "events", "attributes"}, R)
       ELSE de_error("expected an object")

ser_spans(seq) == JArr([i \in 1..Len(seq) |-> serialize_span(seq[i])])
de_spans(j) ==
    IF j.type # "array" THEN de_error("expected an array")
    ELSE de_seq([i \in 1..Len(j.v) |-> deserialize_span(j.v[i])])
ser_strings(seq) == JArr([i \in 1..Len(seq) |-> JStr(seq[i])])
de_strings(j) ==
    IF j.type # "array" THEN de_error("expected an array")
    ELSE de_seq([i \in 1..Len(j.v) |-> de_string(j.v[i])])

\* serde_json::to_value of an ExecutionResult
serialize_result(r) ==
    JObj(Field("execution_id", JStr(r.execution_id))
         \cup Field("repo_span", serialize_span(r.repo_span))
         \cup Field("agent_spans", ser_spans(r.agent_spans))
         \cup Field("valid", JBool(r.valid))
         \cup Field("validation_errors", ser_strings(r.validation_errors))
         \cup Field("total_artifacts", JNum(r.total_artifacts))
         \cup SkipIfNone("total_duration_ms", r.total_duration_ms,
                            ser_option_u64(r.total_duration_ms)))

\* serde_json::from_value::<ExecutionResult>: from an object (keys: the
\* field names, sorted), or from an array of the fields in declaration
\* order (fields)
deserialize_result(j) ==
    LET fields == <<"execution_id", "repo_span", "agent_spans", "valid",
                    "validation_errors", "total_artifacts", "total_duration_ms">>
        keys == <<"agent_spans", "execution_id", "repo_span", "total_artifacts",
                  "total_duration_ms", "valid", "validation_errors">>
        w == IF j.type = "object" THEN j.v
             ELSE IF j.type = "array" THEN Positional(fields, j.v)
             ELSE {}
        R == [execution_id |-> de_required(w, "execution_id", de_string(Get(w, "execution_id"))),
              repo_span |-> de_required(w, "repo_span", deserialize_span(Get(w, "repo_span"))),
              agent_spans |-> de_required(w, "agent_spans", de_spans(Get(w, "agent_spans"))),
              valid |-> de_required(w, "valid", de_bool(Get(w, "valid"))),
              validation_errors |-> de_default(w, "validation_errors", de_strings(Get(w, "validation_errors")), <<>>),
              total_artifacts |-> de_required(w, "total_artifacts", de_u64(Get(w, "total_artifacts"))),
              total_duration_ms |-> de_option(w, "total_duration_ms", de_u64(Get(w, "total_duration_ms")))]
    IN IF j.type = "object" THEN de_struct(w, keys, fields, R)
       ELSE IF j.type = "array"
       THEN de_struct_seq(j.v, fields, {"validation_errors"}, R)
       ELSE de_error("expected an object")

----------------------------------------------------------------------------
(* Spec: a builder chain, build(), operations on the built span *)

Init ==
    /\ builder = DefaultBuilder /\ phase = "building" /\ buildRes = None
    /\ span = None /\ last = NoOp /\ nops = 0 /\ now = 0
    /\ ResIdle /\ MwIdle /\ WireIdle

\* What a builder chain has set so far: fields, artifacts, events, attributes
BuilderSize(b) ==
    Cardinality({f \in {"span_id", "execution_id", "parent_span_id", "kind", "repo_name",
                        "agent_name", "start_time", "end_time", "error_message"} : b[f].some})
    + (IF b.status # "Running" THEN 1 ELSE 0)
    + Len(b.artifacts) + Len(b.events) + Cardinality(b.attributes)

Setter(b) ==
    /\ phase = "building"
    /\ BuilderSize(b) <= MaxSets
    /\ builder' = b
    /\ UNCHANGED <<phase, buildRes, span, last, nops, now, res, nval, streak, nmut, config, reqs, issued, value, json, back>>

SetSpanId == \E id \in SpanIds : Setter(set_span_id(builder, id))
SetExecutionId == Setter(set_execution_id(builder, "e1"))
SetParentSpanId == \E id \in ParentIds : Setter(set_parent_span_id(builder, id))
SetKind == \E k \in Kinds : Setter(set_kind(builder, k))
SetRepoName == Setter(set_repo_name(builder, "llm-observatory"))
SetAgentName == Setter(set_agent_name(builder, "test-agent"))
SetStatus == \E s \in Statuses : Setter(set_status(builder, s))
SetStartTime == \E t \in Times : Setter(set_start_time(builder, t))
SetEndTime == \E t \in Times : Setter(set_end_time(builder, t))
AddArtifact == \E a \in ArtifactInputs : Setter(add_artifact(builder, a))
AddEvent == Setter(add_event(builder, ExecutionEvent("built-in", now, {})))
SetAttribute == Setter(set_attribute(builder, "key", JStr("value")))
SetErrorMessage == \E m \in ErrorTexts : Setter(set_error_message(builder, m))

Build ==
    /\ phase = "building"
    /\ \E uuid \in Uuids :
         LET r == build(builder, uuid, now) IN
         /\ buildRes' = r
         /\ phase' = IF r.ok THEN "built" ELSE "failed"
         /\ span' = IF r.ok THEN Some(r.val) ELSE None
    /\ UNCHANGED <<builder, last, nops, now, res, nval, streak, nmut, config, reqs, issued, value, json, back>>

SpanOp(s, l) ==
    /\ phase = "built"
    /\ nops < MaxOps
    /\ span' = Some(s)
    /\ last' = l
    /\ nops' = nops + 1
    /\ UNCHANGED <<builder, phase, buildRes, now, res, nval, streak, nmut, config, reqs, issued, value, json, back>>

\* span.complete(); last keeps the status and end_time the span had before
Complete ==
    SpanOp(complete(span.val, now),
           [op |-> "complete",
            was |-> [status |-> span.val.status, end_time |-> span.val.end_time]])

Fail == \E m \in ErrorTexts : SpanOp(fail(span.val, m, now), [op |-> "fail", error |-> m])

AttachArtifact ==
    \E a \in ArtifactInputs :
        LET r == attach_artifact(span.val, a) IN
        SpanOp(r.span, [op |-> "attach_artifact", artifact |-> a, ret |-> r.ret])

RecordEvent ==
    \E attributes \in EventAttributes :
        SpanOp(record_event(span.val, "started_processing", attributes, now),
               [op |-> "record_event", name |-> "started_processing",
                attributes |-> attributes])

Tick ==
    /\ phase = "built"
    /\ now < MaxTime
    /\ now' = now + 1
    /\ UNCHANGED <<builder, phase, buildRes, span, last, nops, res, nval, streak, nmut, config, reqs, issued, value, json, back>>

Next ==
    \/ SetSpanId \/ SetExecutionId \/ SetParentSpanId \/ SetKind \/ SetRepoName
    \/ SetAgentName \/ SetStatus \/ SetStartTime \/ SetEndTime \/ AddArtifact
    \/ AddEvent \/ SetAttribute \/ SetErrorMessage \/ Build
    \/ Complete \/ Fail \/ AttachArtifact \/ RecordEvent \/ Tick

Spec == Init /\ [][Next]_vars

----------------------------------------------------------------------------
(* Claims about build() and attach_artifact, checked under Spec *)

BuildReturned == phase \in {"built", "failed"}

\* The required fields in the order the claim gives, agent_name only for Agent
RequiredInOrder(b) ==
    <<"execution_id", "parent_span_id", "kind", "repo_name">>
    \o (IF b.kind.some /\ b.kind.val = "Agent" THEN <<"agent_name">> ELSE <<>>)

MissingInOrder(b) == SelectSeq(RequiredInOrder(b), LAMBDA f : ~b[f].some)

\* The field an error of build() names
FieldNamed(e) ==
    CASE e.msg = "execution_id is required" -> "execution_id"
      [] e.msg = "parent_span_id is required" -> "parent_span_id"
      [] e.msg = "kind is required" -> "kind"
      [] e.msg = "repo_name is required" -> "repo_name"
      [] e.msg = "agent_name is required for agent spans" -> "agent_name"
      [] OTHER -> "none"

\* C8: build() is fail-fast: it fails naming exactly the first missing field in
\* the order execution_id, parent_span_id, kind, repo_name, then (for an Agent
\* span only) agent_name, and it succeeds if and only if none is missing.
C8_BuildFailFast ==
    BuildReturned =>
        LET m == MissingInOrder(builder) IN
        IF m = <<>>
        THEN buildRes.ok
        ELSE ~buildRes.ok /\ FieldNamed(buildRes.err) = Head(m)

\* build() failed on a builder that lacks parent_span_id and kind, and also
\* repo_name: the error has to name the first of them
C8_Witness ==
    /\ phase = "failed"
    /\ builder.execution_id.some
    /\ ~builder.parent_span_id.some /\ ~builder.kind.some /\ ~builder.repo_name.some
    /\ FieldNamed(buildRes.err) = "parent_span_id"

AllFourSupplied(b) ==
    b.execution_id.some /\ b.parent_span_id.some /\ b.kind.some /\ b.repo_name.some

\* C9: with execution_id, parent_span_id, kind and repo_name supplied, build()
\* of a Repo span succeeds with or without agent_name, and build() of an Agent
\* span fails exactly when agent_name was not supplied.
C9_AgentNameRule ==
    (BuildReturned /\ AllFourSupplied(builder)) =>
        /\ builder.kind.val = "Repo" => buildRes.ok
        /\ builder.kind.val = "Agent" => (~buildRes.ok <=> ~builder.agent_name.some)

\* a Repo span was built from a chain that did supply agent_name
C9_Witness ==
    /\ phase = "built"
    /\ builder.kind.val = "Repo"
    /\ builder.agent_name.some
    /\ buildRes.ok /\ buildRes.val.kind = "Repo"

IsAttachStep == nops' = nops + 1 /\ last'.op = "attach_artifact"

\* C10: attach_artifact on a Repo span returns an error and leaves the span
\* unchanged; on an Agent span it succeeds whatever the artifact's
\* agent_span_id, appends the artifact at the end of artifacts (one more
\* element, the earlier ones in place) and changes nothing else of the span.
C10_AttachArtifact ==
    [][IsAttachStep =>
         LET before == span.val
             after == span'.val
             n == Len(before.artifacts)
         IN IF before.kind = "Repo"
            THEN ~last'.ret.ok /\ after = before
            ELSE /\ last'.ret.ok
                 /\ Len(after.artifacts) = n + 1
                 /\ SubSeq(after.artifacts, 1, n) = before.artifacts
                 /\ after.artifacts[n + 1] = last'.artifact
                 /\ [after EXCEPT !.artifacts = before.artifacts] = before]_vars

\* an Agent span that already held an artifact accepted one more, whose
\* agent_span_id is not the span's id
C10_Witness ==
    /\ phase = "built"
    /\ span.val.kind = "Agent"
    /\ last.op = "attach_artifact" /\ last.ret.ok
    /\ last.artifact.agent_span_id # span.val.span_id
    /\ Len(span.val.artifacts) >= 2
    /\ span.val.artifacts[Len(span.val.artifacts)] = last.artifact

----------------------------------------------------------------------------
(* Claims about the span lifecycle, checked under Spec *)

\* the step is a call of the named span operation
IsOpStep(op) == nops' = nops + 1 /\ last'.op = op

\* the distance between two instants in whole milliseconds
WholeMsBetween(a, b) == (IF a >= b THEN a - b ELSE b - a) \div TicksPerMs

\* C11: complete() sets status to Completed, end_time to the current time and
\* duration_ms to the absolute value of (now - start_time) in whole
\* milliseconds, all in the one call.
C11_Complete ==
    [][IsOpStep("complete") =>
         /\ span'.val.status = "Completed"
         /\ span'.val.end_time = Some(now)
         /\ span'.val.duration_ms = Some(WholeMsBetween(now, span.val.start_time))]_vars

\* a span whose start_time lies after the current time was completed, and its
\* duration is the positive whole number of milliseconds between the two
C11_Witness ==
    /\ phase = "built"
    /\ last.op = "complete"
    /\ span.val.status = "Completed"
    /\ span.val.end_time.some
    /\ span.val.start_time >= span.val.end_time.val + TicksPerMs
    /\ span.val.duration_ms.some /\ span.val.duration_ms.val >= 1

\* C12: fail(m) sets status to Failed, error_message to Some(m), end_time to
\* the current time and duration_ms to the absolute value of
\* (now - start_time) in whole milliseconds, all in the one call.
C12_Fail ==
    [][IsOpStep("fail") =>
         /\ span'.val.status = "Failed"
         /\ span'.val.error_message = Some(last'.error)
         /\ span'.val.end_time = Some(now)
         /\ span'.val.duration_ms = Some(WholeMsBetween(now, span.val.start_time))]_vars

\* a span built without an error message, still Running, was failed after a
\* whole millisecond and carries the message of the call
C12_Witness ==
    /\ phase = "built"
    /\ ~builder.error_message.some
    /\ last.op = "fail" /\ nops = 1
    /\ span.val.status = "Failed"
    /\ span.val.error_message = Some(last.error)
    /\ span.val.end_time = Some(now)
    /\ span.val.duration_ms.some /\ span.val.duration_ms.val >= 1

TerminalStatuses == {"Completed", "Failed", "Cancelled"}

\* C13: once a span's status is Completed, Failed or Cancelled, no call of
\* complete(), fail(), record_event() or attach_artifact() changes it.
C13_TerminalIsFinal ==
    [][(phase = "built" /\ phase' = "built" /\ span.val.status \in TerminalStatuses)
          => span'.val.status = span.val.status]_vars

\* C14: in a built span, whatever was done to it since, agent_name is Some
\* exactly when kind is Agent.
C14_AgentNameIffAgent ==
    phase = "built" => (span.val.agent_name.some <=> span.val.kind = "Agent")

\* C15: in a built span, whatever was done to it since, duration_ms is Some
\* exactly when end_time is Some, and is then the distance between end_time
\* and start_time in whole milliseconds.
C15_DurationMatchesEnd ==
    phase = "built" =>
        /\ span.val.duration_ms.some <=> span.val.end_time.some
        /\ span.val.end_time.some =>
             span.val.duration_ms.val =
                 WholeMsBetween(span.val.end_time.val, span.val.start_time)

\* a span was built from a chain that supplied an end_time a whole
\* millisecond away from the start, and carries that duration without any
\* operation having run
C15_Witness ==
    /\ phase = "built" /\ nops = 0
    /\ builder.end_time.some
    /\ span.val.end_time = builder.end_time
    /\ span.val.end_time.val >= span.val.start_time + TicksPerMs
    /\ span.val.duration_ms.some /\ span.val.duration_ms.val >= 1

\* C16: in a built span, whatever was done to it since, error_message is Some
\* only when status is Failed.
C16_ErrorOnlyWhenFailed ==
    phase = "built" => (span.val.error_message.some => span.val.status = "Failed")

\* C17: record_event succeeds on a span of either kind and appends exactly one
\* event, with the given name and attributes, at the end of events; every
\* operation leaves the events already recorded in place, in their order.
C17_EventsAppendOnly ==
    [][(phase = "built" /\ phase' = "built") =>
         LET before == span.val.events
             after == span'.val.events
             n == Len(before)
         IN /\ Len(after) >= n
            /\ SubSeq(after, 1, n) = before
            /\ IsOpStep("record_event") =>
                 /\ Len(after) = n + 1
                 /\ after[n + 1].name = last'.name
                 /\ after[n + 1].attributes = last'.attributes
                 /\ after[n + 1].timestamp = now
                 /\ [span'.val EXCEPT !.events = before] = span.val]_vars

\* a Repo span that was built with one event has had two more recorded, and
\* the three are in the order they were added
C17_Witness ==
    /\ phase = "built"
    /\ span.val.kind = "Repo"
    /\ last.op = "record_event" /\ nops = 2
    /\ Len(span.val.events) = 3
    /\ span.val.events[1].name = "built-in"
    /\ span.val.events[3].name = last.name
    /\ span.val.events[3].attributes = last.attributes
    /\ span.val.events[2].timestamp < span.val.events[3].timestamp

\* C22: in a built span, whatever was done to it since, a Running span has
\* neither end_time nor duration_ms and a Completed or Failed span has both.
C22_StatusAgreesWithEnd ==
    phase = "built" =>
        /\ span.val.status = "Running" =>
               (~span.val.end_time.some /\ ~span.val.duration_ms.some)
        /\ span.val.status \in {"Completed", "Failed"} =>
               (span.val.end_time.some /\ span.val.duration_ms.some)

\* C23: on a span that is Completed or Failed, a call of record_event or
\* attach_artifact adds neither an event nor an artifact.
C23_FrozenAfterTermination ==
    [][(phase = "built" /\ span.val.status \in {"Completed", "Failed"}
          /\ (IsOpStep("record_event") \/ IsOpStep("attach_artifact")))
         => (span'.val.events = span.val.events
             /\ span'.val.artifacts = span.val.artifacts)]_vars

\* C24: complete() on a span that is already Completed goes through again and
\* overwrites end_time and duration_ms with the current time and the duration
\* up to it.
C24_CompleteOverwrites ==
    [][(IsOpStep("complete") /\ span.val.status = "Completed") =>
         /\ span'.val.status = "Completed"
         /\ span'.val.end_time = Some(now)
         /\ span'.val.duration_ms = Some(WholeMsBetween(now, span.val.start_time))
         /\ last'.was.end_time = span.val.end_time]_vars

\* a Completed span with an end_time was completed again at a later time: its
\* end_time is the later one
C24_Witness ==
    /\ phase = "built"
    /\ last.op = "complete"
    /\ last.was.status = "Completed" /\ last.was.end_time.some
    /\ span.val.end_time.some
    /\ span.val.end_time.val > last.was.end_time.val
    /\ span.val.end_time = Some(now)

\* the fields that say which span it is
Identity(s) ==
    <<s.kind, s.span_id, s.execution_id, s.parent_span_id, s.repo_name, s.agent_name,
      s.start_time>>

\* C25: a built span keeps its kind, span_id, execution_id, parent_span_id,
\* repo_name, agent_name and start_time through every operation made on it,
\* and ExecutionResult::new and validate() hand it on with the same ones.
C25_IdentityImmutable ==
    phase = "built" =>
        /\ Identity(span.val) = Identity(buildRes.val)
        /\ LET r == validate(new_result(span.val, <<span.val>>)) IN
           /\ Identity(new_result(span.val, <<span.val>>).repo_span) = Identity(span.val)
           /\ Identity(r.repo_span) = Identity(span.val)
           /\ Len(r.agent_spans) = 1
           /\ Identity(r.agent_spans[1]) = Identity(span.val)

\* a Repo span went through an attach_artifact it refused and a fail(), and is
\* still the span that was built
C25_Witness ==
    /\ phase = "built" /\ nops = 2
    /\ span.val.kind = "Repo"
    /\ span.val.status = "Failed" /\ buildRes.val.status = "Running"
    /\ last.op = "fail"
    /\ span.val # buildRes.val
    /\ Identity(span.val) = Identity(buildRes.val)

\* C28: in a built span, whatever was done to it since, a Repo span holds no
\* artifacts.
C28_RepoHoldsNoArtifacts ==
    phase = "built" => (span.val.kind = "Repo" => span.val.artifacts = <<>>)

----------------------------------------------------------------------------
(* SpecResult: ExecutionResult::new over bounded spans, validate(), and the
   changes a caller can make to the spans in between *)

RepoIds == {"R1"}
AgentIds == {"A1", "A2"}
AgentParents == {"R1", "wrong-parent"}
RepoParents == {"", "caller-span-1"}

\* builder chains as the tests' make_repo_span / make_agent_span write them,
\* with the span id given and either kind
chain(id, parent, kind) ==
    LET b == set_repo_name(set_kind(set_parent_span_id(set_execution_id(
                 set_span_id(DefaultBuilder, id), "exec-1"), parent), kind), "llm-observatory")
    IN IF kind = "Agent" THEN set_agent_name(b, "test-agent") ELSE b

RepoSpanInputs ==
    {build(chain(id, p, k), "uuid-1", 0).val : id \in RepoIds, p \in RepoParents, k \in Kinds}

\* Agent spans with either id and parent, and one span of the wrong kind that
\* is otherwise well linked (agent_spans is a Vec<ExecutionSpan> of any kind)
AgentSpanInputs ==
    {build(chain(id, p, "Agent"), "uuid-1", 0).val : id \in AgentIds, p \in AgentParents}
    \cup {build(chain("A1", "R1", "Repo"), "uuid-1", 0).val}

SeqsUpTo(S, n) == UNION {[1..k -> S] : k \in 0..n}

InitResult ==
    /\ \E repo \in RepoSpanInputs, agents \in SeqsUpTo(AgentSpanInputs, MaxAgents) :
           res = new_result(repo, agents)
    /\ nval = 0 /\ streak = 0 /\ nmut = 0
    /\ builder = DefaultBuilder /\ phase = "idle" /\ buildRes = None
    /\ span = None /\ last = NoOp /\ nops = 0 /\ now = MaxTime
    /\ MwIdle /\ WireIdle

Validate ==
    /\ nval < MaxValidate
    /\ res' = validate(res)
    /\ nval' = nval + 1
    /\ streak' = streak + 1
    /\ UNCHANGED <<nmut, builder, phase, buildRes, span, last, nops, now, config, reqs, issued, value, json, back>>

Mutation(r) ==
    /\ nmut < MaxMutations
    /\ res' = r
    /\ nmut' = nmut + 1
    /\ streak' = 0
    /\ UNCHANGED <<nval, builder, phase, buildRes, span, last, nops, now, config, reqs, issued, value, json, back>>

\* result.agent_spans[i].attach_artifact(a), a an artifact made for that span,
\* on an agent span that takes it
AttachToAgent ==
    \E i \in 1..Len(res.agent_spans) :
        LET r == attach_artifact(res.agent_spans[i],
                                 Artifact("a1", res.agent_spans[i].span_id)) IN
        /\ r.ret.ok
        /\ Mutation([res EXCEPT !.agent_spans[i] = r.span])

\* result.repo_span.complete()
CompleteRepo == Mutation([res EXCEPT !.repo_span = complete(@, now)])

\* result.agent_spans.push(span)
PushAgent ==
    /\ Len(res.agent_spans) < MaxAgents
    /\ \E a \in AgentSpanInputs : Mutation([res EXCEPT !.agent_spans = Append(@, a)])

NextResult == Validate \/ AttachToAgent \/ CompleteRepo \/ PushAgent

SpecResult == InitResult /\ [][NextResult]_vars

----------------------------------------------------------------------------
(* Claims about validate(), checked under SpecResult *)

JustValidated == streak >= 1

\* The four rules as the claim states them
RuleParentPresent(r) == r.repo_span.parent_span_id # ""
RuleHasAgents(r) == Len(r.agent_spans) >= 1
RuleAllLinked(r) ==
    \A i \in 1..Len(r.agent_spans) : r.agent_spans[i].parent_span_id = r.repo_span.span_id
RuleDistinctIds(r) ==
    \A i, j \in 1..Len(r.agent_spans) :
        i # j => r.agent_spans[i].span_id # r.agent_spans[j].span_id

\* C5: after validate(), valid is true if and only if validation_errors is
\* empty, and that is so if and only if the four rules hold together: the repo
\* span's parent_span_id is non-empty, there is an agent span, every agent
\* span's parent_span_id is the repo span's id, and agent span ids are distinct.
C5_ValidIffRules ==
    JustValidated =>
        /\ res.valid <=> (res.validation_errors = <<>>)
        /\ res.valid <=> (/\ RuleParentPresent(res) /\ RuleHasAgents(res)
                          /\ RuleAllLinked(res) /\ RuleDistinctIds(res))

\* Scenario C: a repo span with two well-linked agent spans of distinct ids
\* validated to valid = true
C5_Witness ==
    /\ JustValidated
    /\ res.valid
    /\ Len(res.agent_spans) = 2
    /\ res.agent_spans[1].span_id # res.agent_spans[2].span_id

\* The elements of a set of indices in increasing order
RECURSIVE InOrder(_)
InOrder(S) ==
    IF S = {} THEN <<>>
    ELSE LET m == CHOOSE i \in S : \A j \in S : i <= j IN <<m>> \o InOrder(S \ {m})

\* The errors the claim lists, in the claim's order
ExpectedErrors(r) ==
    LET n == Len(r.agent_spans)
        unlinked == {i \in 1..n : r.agent_spans[i].parent_span_id # r.repo_span.span_id}
        repeats == {i \in 1..n : \E j \in 1..(i - 1) :
                                    r.agent_spans[j].span_id = r.agent_spans[i].span_id}
        u == InOrder(unlinked)
        d == InOrder(repeats)
    IN (IF r.repo_span.parent_span_id = "" THEN <<MsgMissingParent>> ELSE <<>>)
       \o (IF n = 0 THEN <<MsgNoAgentSpans>> ELSE <<>>)
       \o [k \in 1..Len(u) |-> MsgWrongParent(r.agent_spans[u[k]], r.repo_span)]
       \o [k \in 1..Len(d) |-> MsgDuplicate(r.agent_spans[d[k]])]

Occurrences(seq, x) == Cardinality({i \in 1..Len(seq) : seq[i] = x})

\* C6: validate() runs every check and accumulates: validation_errors holds, in
\* this order, one entry if the repo span's parent_span_id is empty, one if
\* there is no agent span, one per agent span with the wrong parent (in
\* agent_spans order) and one per repeated occurrence of an agent span id (k-1
\* entries for an id that occurs k times), and nothing else.
C6_ErrorsAccumulate ==
    JustValidated =>
        /\ res.validation_errors = ExpectedErrors(res)
        /\ \A i \in 1..Len(res.agent_spans) :
               LET a == res.agent_spans[i]
                   k == Cardinality({j \in 1..Len(res.agent_spans) :
                                        res.agent_spans[j].span_id = a.span_id})
               IN Occurrences(res.validation_errors, MsgDuplicate(a)) = k - 1

\* a validated result that breaks three rules at once: empty parent on the repo
\* span, an agent span with the wrong parent, one id three times
C6_Witness ==
    /\ JustValidated
    /\ res.repo_span.parent_span_id = ""
    /\ Len(res.agent_spans) = 3
    /\ \A i \in 1..3 : res.agent_spans[i].span_id = "A1"
    /\ res.agent_spans[2].parent_span_id # res.repo_span.span_id
    /\ Len(res.validation_errors) >= 4

Derived(r) == <<r.valid, r.validation_errors, r.total_artifacts, r.total_duration_ms>>

\* C7: validate() is idempotent: a validate() call on a result that was just
\* validated, its spans untouched in between, leaves valid, validation_errors,
\* total_artifacts and total_duration_ms as they were.
C7_ValidateIdempotent ==
    [][(nval' = nval + 1 /\ streak >= 1) => Derived(res') = Derived(res)]_vars

\* an invalid result with several errors and an artifact was validated twice in
\* a row
C7_Witness ==
    /\ streak >= 2
    /\ ~res.valid
    /\ Len(res.validation_errors) >= 2
    /\ res.total_artifacts >= 1

\* C18: a result that validate() found valid has the two-level structure: the
\* repo span has kind Repo, there is at least one agent span, and every agent
\* span has kind Agent and the repo span's id as parent_span_id.
C18_ValidIsTwoLevel ==
    (JustValidated /\ res.valid) =>
        /\ res.repo_span.kind = "Repo"
        /\ Len(res.agent_spans) >= 1
        /\ \A i \in 1..Len(res.agent_spans) :
               /\ res.agent_spans[i].kind = "Agent"
               /\ res.agent_spans[i].parent_span_id = res.repo_span.span_id

\* the number of artifacts held by the agent spans, counted one by one
ArtifactCount(agent_spans) ==
    Cardinality(UNION {{<<i, j>> : j \in 1..Len(agent_spans[i].artifacts)} :
                          i \in 1..Len(agent_spans)})

\* C20: validate() leaves execution_id, repo_span and agent_spans as they
\* are, and the four derived fields after the call are a function of the spans
\* as they are now: the errors of the current spans only, valid exactly when
\* there are none, total_artifacts the number of artifacts over agent_spans and
\* total_duration_ms the repo span's duration, whether or not the result is
\* valid and whatever was validated or changed before.
C20_ValidatePure ==
    [][(nval' = nval + 1) =>
         /\ res'.execution_id = res.execution_id
         /\ res'.repo_span = res.repo_span
         /\ res'.agent_spans = res.agent_spans
         /\ res'.validation_errors = ExpectedErrors(res)
         /\ res'.valid = (ExpectedErrors(res) = <<>>)
         /\ res'.total_artifacts = ArtifactCount(res.agent_spans)
         /\ res'.total_duration_ms = res.repo_span.duration_ms]_vars

\* a result was validated, then an artifact was attached to one of its agent
\* spans, then it was validated again: it is still invalid and its total
\* counts the new artifact
C20_Witness ==
    /\ nval = 2 /\ nmut = 1 /\ streak = 1
    /\ ~res.valid
    /\ res.total_artifacts >= 1
    /\ res.total_artifacts = ArtifactCount(res.agent_spans)

\* C21: build() returns a span for a chain whose parent_span_id is the empty
\* string and fails on parent_span_id only when the chain did not set it; a
\* result whose repo span has an empty parent_span_id validates to
\* valid = false with the error about the missing parent_span_id, however well
\* its agent spans are linked.
C21_EmptyParentAtValidation ==
    /\ \A id \in RepoIds, k \in Kinds :
           LET supplied == build(chain(id, "", k), "uuid-1", 0)
               unset == build([chain(id, "", k) EXCEPT !.parent_span_id = None], "uuid-1", 0)
           IN /\ supplied.ok /\ supplied.val.parent_span_id = ""
              /\ ~unset.ok /\ unset.err.msg = "parent_span_id is required"
    /\ (JustValidated /\ res.repo_span.parent_span_id = "") =>
           /\ ~res.valid
           /\ \E i \in 1..Len(res.validation_errors) :
                  res.validation_errors[i] = MsgMissingParent

\* a Repo span built with an empty parent_span_id and two well-linked agent
\* spans of distinct ids were validated: the only error is the one about
\* parent_span_id
C21_Witness ==
    /\ JustValidated
    /\ res.repo_span = build(chain("R1", "", "Repo"), "uuid-1", 0).val
    /\ Len(res.agent_spans) = 2
    /\ RuleAllLinked(res) /\ RuleDistinctIds(res)
    /\ ~res.valid
    /\ res.validation_errors = <<MsgMissingParent>>

----------------------------------------------------------------------------
(* SpecMw: requests going through execution_context_middleware *)

Requests == 1..NReq

\* Header values on the wire: "e1", "c1", "r1", the empty value, and a value
\* holding the byte 0xE9, which is no visible ASCII
ExecutionIdValues == {None, Some(<<101, 49>>), Some(<<233>>)}
ParentSpanIdValues == {None, Some(<<99, 49>>), Some(<<>>), Some(<<233>>)}
RepoNameValues == {None, Some(<<114, 49>>), Some(<<233>>)}

\* The header sets of a request: every execution id and parent span id, and
\* every repo name where the middleware gets to use it, which is when it read
\* both ids
HeaderInputs ==
    {[h \in {X_EXECUTION_ID, X_EXECUTION_PARENT_SPAN_ID, X_EXECUTION_REPO_NAME} |->
        CASE h = X_EXECUTION_ID -> v[1]
          [] h = X_EXECUTION_PARENT_SPAN_ID -> v[2]
          [] OTHER -> v[3]] :
     v \in {w \in ExecutionIdValues \X ParentSpanIdValues \X RepoNameValues :
              \/ w[3] = None
              \/ /\ w[1].some /\ to_str(w[1].val).some
                 /\ w[2].some /\ to_str(w[2].val).some}}

NoHeaders ==
    [h \in {X_EXECUTION_ID, X_EXECUTION_PARENT_SPAN_ID, X_EXECUTION_REPO_NAME} |-> None]

\* A request that has not arrived yet
IdleRequest ==
    [pc |-> "idle", headers |-> NoHeaders, ext |-> NoExtensions, next_calls |-> 0,
     extraction |-> None, inner |-> None, response |-> None]

\* The response of a wrapped handler that ran (routes::observations: 202)
Accepted == [status |-> 202, body |-> "accepted"]

\* Ok(next.run(req).await): the middleware hands the inner response back
middleware_return(inner) == Ok(inner)

InitMw ==
    /\ config \in {config_new("llm-observatory"), config_permissive("llm-observatory")}
    /\ reqs = [r \in Requests |-> IdleRequest]
    /\ issued = 0
    /\ SpanIdle /\ ResIdle /\ WireIdle

\* Request r arrives with headers h and the middleware runs up to its only
\* suspension point, next.run(req).await, or to the rejection
MiddlewareRuns(r) ==
    /\ reqs[r].pc = "idle"
    /\ \E h \in HeaderInputs :
         LET m == execution_context_middleware(config, h, issued, now) IN
         /\ issued' = issued + m.uuids
         /\ reqs' = [reqs EXCEPT ![r] =
               IF m.outcome = "reject"
               THEN [@ EXCEPT !.pc = "rejected", !.headers = h,
                              !.response = Some(into_response(m.error, now))]
               ELSE [@ EXCEPT !.pc = "next", !.headers = h, !.ext = m.ext,
                              !.next_calls = @ + 1]]
    /\ UNCHANGED <<config, builder, phase, buildRes, span, last, nops, now,
                   res, nval, streak, nmut, value, json, back>>

\* The wrapped handler of request r runs, with or without the
\* ReqExecutionContext extractor in its signature, and the middleware returns
\* its response
HandlerReturns(r) ==
    /\ reqs[r].pc = "next"
    /\ \E wants_ctx \in BOOLEAN :
         LET extraction == IF wants_ctx THEN Some(from_request_parts(reqs[r].ext)) ELSE None
             inner == IF extraction.some /\ ~extraction.val.ok
                      THEN into_response(extraction.val.err, now)
                      ELSE Accepted
         IN reqs' = [reqs EXCEPT ![r] =
                [@ EXCEPT !.pc = "done", !.extraction = extraction, !.inner = Some(inner),
                          !.response = Some(middleware_return(inner).val)]]
    /\ UNCHANGED <<config, issued, builder, phase, buildRes, span, last, nops, now,
                   res, nval, streak, nmut, value, json, back>>

NextMw == \E r \in Requests : MiddlewareRuns(r) \/ HandlerReturns(r)

SpecMw == InitMw /\ [][NextMw]_vars

----------------------------------------------------------------------------
(* Claims about the middleware, checked under SpecMw *)

Arrived(r) == reqs[r].pc # "idle"
Present(r, h) == reqs[r].headers[h].some
\* the header is there and its value is visible ASCII, so that to_str() reads it
Readable(r, h) == Present(r, h) /\ to_str(reqs[r].headers[h].val).some
TextOf(r, h) == bytes_text(reqs[r].headers[h].val)

RejectedWith(r, code) ==
    /\ reqs[r].pc = "rejected"
    /\ reqs[r].response.some
    /\ reqs[r].response.val.status = 400
    /\ reqs[r].response.val.body.error.code = code
    /\ reqs[r].next_calls = 0
    /\ reqs[r].ext = NoExtensions

\* C1 as stated: in enforcing mode a request without the x-execution-id header
\* is answered 400 MISSING_EXECUTION_ID, and one that has it but lacks
\* x-execution-parent-span-id is answered 400 MISSING_PARENT_SPAN_ID; the
\* wrapped handler is not invoked and nothing is injected.
C1_AsStated ==
    \A r \in Requests :
        (config.enforce /\ Arrived(r)) =>
            /\ ~Present(r, X_EXECUTION_ID) => RejectedWith(r, "MISSING_EXECUTION_ID")
            /\ (Present(r, X_EXECUTION_ID) /\ ~Present(r, X_EXECUTION_PARENT_SPAN_ID))
                   => RejectedWith(r, "MISSING_PARENT_SPAN_ID")

\* C1, amended: in enforcing mode a request whose x-execution-id header is
\* absent or holds a value that is not visible ASCII is answered 400
\* MISSING_EXECUTION_ID; otherwise, if x-execution-parent-span-id is absent or
\* not visible ASCII, it is answered 400 MISSING_PARENT_SPAN_ID; in both cases
\* the wrapped handler is not invoked and nothing is injected.
C1_EnforcingRejects ==
    \A r \in Requests :
        (config.enforce /\ Arrived(r)) =>
            /\ ~Readable(r, X_EXECUTION_ID) => RejectedWith(r, "MISSING_EXECUTION_ID")
            /\ (Readable(r, X_EXECUTION_ID) /\ ~Readable(r, X_EXECUTION_PARENT_SPAN_ID))
                   => RejectedWith(r, "MISSING_PARENT_SPAN_ID")

\* in enforcing mode one request was rejected for its execution id and another,
\* whose execution id is fine, for its missing parent span id
C1_Witness ==
    /\ config.enforce
    /\ \E r \in Requests :
           ~Present(r, X_EXECUTION_ID) /\ RejectedWith(r, "MISSING_EXECUTION_ID")
    /\ \E r \in Requests :
           /\ Readable(r, X_EXECUTION_ID) /\ ~Present(r, X_EXECUTION_PARENT_SPAN_ID)
           /\ RejectedWith(r, "MISSING_PARENT_SPAN_ID")

\* The handler of r was invoked with an ExecutionContext and a Repo span that
\* agree with each other and carry execution id e, parent span id p, repo name n
InjectedAs(r, e, p, n) ==
    /\ reqs[r].pc \in {"next", "done"}
    /\ reqs[r].next_calls = 1
    /\ reqs[r].ext.ctx.some /\ reqs[r].ext.span.some
    /\ LET ctx == reqs[r].ext.ctx.val
           sp == reqs[r].ext.span.val
       IN /\ sp.kind = "Repo"
          /\ ctx.execution_id = e /\ sp.execution_id = e
          /\ ctx.parent_span_id = p /\ sp.parent_span_id = p
          /\ ctx.repo_span_id = Some(sp.span_id)
          /\ sp.status = "Running"
          /\ sp.end_time = None
          /\ ctx.repo_name = n /\ sp.repo_name = n

\* C2 as stated: whenever both headers are present, in either mode, the handler
\* is invoked with an ExecutionContext and a Repo span carrying the two header
\* values, repo_span_id = Some(span.span_id), status Running, no end time, and
\* the x-execution-repo-name header's value if present, else the configured name.
C2_AsStated ==
    \A r \in Requests :
        (Arrived(r) /\ Present(r, X_EXECUTION_ID) /\ Present(r, X_EXECUTION_PARENT_SPAN_ID)) =>
            InjectedAs(r, TextOf(r, X_EXECUTION_ID), TextOf(r, X_EXECUTION_PARENT_SPAN_ID),
                       IF Present(r, X_EXECUTION_REPO_NAME)
                       THEN TextOf(r, X_EXECUTION_REPO_NAME)
                       ELSE config.repo_name)

\* C2, amended: whenever both headers are present with visible-ASCII values, in
\* either mode, the handler is invoked with an ExecutionContext and a Repo span
\* carrying the two header values, repo_span_id = Some(span.span_id), status
\* Running, no end time, and as repo name the x-execution-repo-name header's
\* value if that header is present with a visible-ASCII value, else the
\* configured name.
C2_ContextInjected ==
    \A r \in Requests :
        (Arrived(r) /\ Readable(r, X_EXECUTION_ID) /\ Readable(r, X_EXECUTION_PARENT_SPAN_ID)) =>
            InjectedAs(r, TextOf(r, X_EXECUTION_ID), TextOf(r, X_EXECUTION_PARENT_SPAN_ID),
                       IF Readable(r, X_EXECUTION_REPO_NAME)
                       THEN TextOf(r, X_EXECUTION_REPO_NAME)
                       ELSE config.repo_name)

\* in permissive mode a request with both headers and a repo-name override was
\* handed to the handler with its context, named by the override
C2_Witness ==
    /\ ~config.enforce
    /\ \E r \in Requests :
           /\ Readable(r, X_EXECUTION_ID) /\ Readable(r, X_EXECUTION_PARENT_SPAN_ID)
           /\ Readable(r, X_EXECUTION_REPO_NAME)
           /\ reqs[r].pc = "done"
           /\ reqs[r].ext.ctx.some
           /\ reqs[r].ext.ctx.val.repo_name = "r1"
           /\ reqs[r].ext.ctx.val.repo_name # config.repo_name

\* C3: in permissive mode no request is rejected: the wrapped handler is invoked
\* exactly once and its response is the one returned; when the execution-id or
\* the parent-span-id header is missing, nothing is injected.
C3_PermissiveNeverRejects ==
    \A r \in Requests :
        (~config.enforce /\ Arrived(r)) =>
            /\ reqs[r].pc \in {"next", "done"}
            /\ reqs[r].next_calls = 1
            /\ reqs[r].pc = "done" =>
                   reqs[r].inner.some /\ reqs[r].response = reqs[r].inner
            /\ reqs[r].pc = "next" => reqs[r].response = None
            /\ (~Present(r, X_EXECUTION_ID) \/ ~Present(r, X_EXECUTION_PARENT_SPAN_ID))
                   => reqs[r].ext = NoExtensions

\* in permissive mode a request with neither header got the handler's 202
C3_Witness ==
    /\ ~config.enforce
    /\ \E r \in Requests :
           /\ ~Present(r, X_EXECUTION_ID) /\ ~Present(r, X_EXECUTION_PARENT_SPAN_ID)
           /\ reqs[r].pc = "done"
           /\ reqs[r].next_calls = 1
           /\ reqs[r].ext = NoExtensions
           /\ reqs[r].response = Some(Accepted)

\* C4: extraction of ReqExecutionContext succeeds, returning exactly the
\* injected context, if and only if the extensions hold an ExecutionContext;
\* otherwise it fails with 400 MISSING_EXECUTION_CONTEXT, whatever the mode.
C4_ExtractionBoundary ==
    \A r \in Requests :
        (reqs[r].pc = "done" /\ reqs[r].extraction.some) =>
            LET x == reqs[r].extraction.val IN
            /\ x.ok <=> reqs[r].ext.ctx.some
            /\ x.ok => /\ x.val = reqs[r].ext.ctx.val
                       /\ x.val.execution_id = TextOf(r, X_EXECUTION_ID)
                       /\ x.val.parent_span_id = TextOf(r, X_EXECUTION_PARENT_SPAN_ID)
            /\ ~x.ok => /\ x.err.status = 400
                        /\ x.err.code = "MISSING_EXECUTION_CONTEXT"
                        /\ reqs[r].response.val.status = 400
                        /\ reqs[r].response.val.body.error.code = "MISSING_EXECUTION_CONTEXT"

\* Scenario F: in permissive mode a request missing both headers went through
\* and the extraction of its handler failed, while another request's succeeded
C4_Witness ==
    /\ ~config.enforce
    /\ \E r \in Requests :
           /\ ~Present(r, X_EXECUTION_ID) /\ ~Present(r, X_EXECUTION_PARENT_SPAN_ID)
           /\ reqs[r].pc = "done" /\ reqs[r].extraction.some
           /\ ~reqs[r].extraction.val.ok
           /\ reqs[r].extraction.val.err.code = "MISSING_EXECUTION_CONTEXT"
    /\ \E r \in Requests :
           /\ reqs[r].pc = "done" /\ reqs[r].extraction.some
           /\ reqs[r].extraction.val.ok

\* C26: per request the middleware hands over in sequence: the handler is
\* invoked at most once, only with both injections made (or, in permissive
\* mode, none), never for a rejected request, the response is returned only
\* after the handler, and the extensions stay as they are from the moment the
\* handler is started.
C26_SequentialHandoff ==
    [][\A r \in Requests :
         LET a == reqs[r]
             b == reqs'[r]
         IN /\ <<a.pc, b.pc>> \in {<<"idle", "idle">>, <<"idle", "rejected">>,
                                   <<"idle", "next">>, <<"next", "next">>,
                                   <<"next", "done">>, <<"done", "done">>,
                                   <<"rejected", "rejected">>}
            /\ b.next_calls <= 1 /\ b.next_calls >= a.next_calls
            /\ b.next_calls = 1 <=> b.pc \in {"next", "done"}
            /\ b.next_calls = 1 => (b.ext.ctx.some <=> b.ext.span.some)
            /\ (b.next_calls = 1 /\ config.enforce) => (b.ext.ctx.some /\ b.ext.span.some)
            /\ b.pc = "rejected" =>
                   (b.next_calls = 0 /\ b.ext = NoExtensions /\ b.inner = None)
            /\ a.pc = "rejected" => b = a
            /\ a.pc \in {"next", "done"} => b.ext = a.ext
            /\ b.pc = "next" => (b.inner = None /\ b.response = None)
            /\ b.pc = "done" => (b.inner.some /\ b.response = b.inner)]_vars

\* in enforcing mode one request was rejected and another went through the
\* whole handoff with both values injected
C26_Witness ==
    /\ config.enforce
    /\ \E r \in Requests : reqs[r].pc = "rejected" /\ reqs[r].next_calls = 0
    /\ \E r \in Requests :
           /\ reqs[r].pc = "done" /\ reqs[r].next_calls = 1
           /\ reqs[r].ext.ctx.some /\ reqs[r].ext.span.some
           /\ reqs[r].response = Some(Accepted)

\* what the handler of r may observe is settled by r's own headers and the
\* configuration: both values when both headers are readable, else nothing
OwnContext(r) ==
    IF Readable(r, X_EXECUTION_ID) /\ Readable(r, X_EXECUTION_PARENT_SPAN_ID)
    THEN InjectedAs(r, TextOf(r, X_EXECUTION_ID), TextOf(r, X_EXECUTION_PARENT_SPAN_ID),
                    IF Readable(r, X_EXECUTION_REPO_NAME)
                    THEN TextOf(r, X_EXECUTION_REPO_NAME)
                    ELSE config.repo_name)
    ELSE reqs[r].ext = NoExtensions

\* C27: however the requests interleave, each step touches one request only,
\* what a request's handler observes is derived from that request's headers
\* and the configuration, and two requests never get the same repo span id,
\* even with the same execution id and parent span id.
C27_RequestIsolation ==
    [][/\ \A r1, r2 \in Requests :
              (reqs'[r1] # reqs[r1] /\ reqs'[r2] # reqs[r2]) => r1 = r2
       /\ config' = config
       /\ \A r \in Requests : (reqs'[r].pc \in {"next", "done"}) => OwnContext(r)'
       /\ \A r1, r2 \in Requests :
              (r1 # r2 /\ reqs'[r1].ext.span.some /\ reqs'[r2].ext.span.some) =>
                  /\ reqs'[r1].ext.span.val.span_id # reqs'[r2].ext.span.val.span_id
                  /\ reqs'[r1].ext.ctx.val.repo_span_id # reqs'[r2].ext.ctx.val.repo_span_id]_vars

\* two requests with the same execution id and parent span id but different
\* repo-name headers are both inside their handlers: each sees its own repo
\* name, and their repo span ids differ
C27_Witness ==
    \E r1, r2 \in Requests :
        /\ r1 # r2
        /\ reqs[r1].pc = "next" /\ reqs[r2].pc = "next"
        /\ reqs[r1].headers[X_EXECUTION_ID] = reqs[r2].headers[X_EXECUTION_ID]
        /\ reqs[r1].headers[X_EXECUTION_PARENT_SPAN_ID]
               = reqs[r2].headers[X_EXECUTION_PARENT_SPAN_ID]
        /\ Readable(r1, X_EXECUTION_REPO_NAME) /\ ~Present(r2, X_EXECUTION_REPO_NAME)
        /\ reqs[r1].ext.span.some /\ reqs[r2].ext.span.some
        /\ reqs[r1].ext.ctx.val.repo_name = "r1"
        /\ reqs[r2].ext.ctx.val.repo_name = config.repo_name
        /\ reqs[r1].ext.span.val.span_id # reqs[r2].ext.span.val.span_id

\* the request got no 500 EXECUTION_SPAN_CREATION_FAILED, and if it was
\* rejected, then for a missing execution id or parent span id
NoCreationFailure(r) ==
    /\ reqs[r].pc = "rejected" =>
           /\ reqs[r].response.val.status = 400
           /\ reqs[r].response.val.body.error.code
                  \in {"MISSING_EXECUTION_ID", "MISSING_PARENT_SPAN_ID"}
    /\ reqs[r].pc = "rejected" => config.enforce
    /\ reqs[r].response.some => reqs[r].response.val.status # 500

Injected(r) ==
    /\ reqs[r].pc \in {"next", "done"}
    /\ reqs[r].ext.ctx.some /\ reqs[r].ext.span.some

\* C30 as stated: the middleware's repo span construction never fails: no
\* request is answered 500 EXECUTION_SPAN_CREATION_FAILED, the only rejections
\* are MISSING_EXECUTION_ID and MISSING_PARENT_SPAN_ID, and in permissive mode
\* a request with both headers gets its context injected.
C30_AsStated ==
    \A r \in Requests :
        Arrived(r) =>
            /\ NoCreationFailure(r)
            /\ (~config.enforce /\ Present(r, X_EXECUTION_ID)
                  /\ Present(r, X_EXECUTION_PARENT_SPAN_ID)) => Injected(r)

\* C30, amended: no request is answered 500 EXECUTION_SPAN_CREATION_FAILED,
\* the only rejections are MISSING_EXECUTION_ID and MISSING_PARENT_SPAN_ID, and
\* in either mode a request whose two headers are present with visible-ASCII
\* values (the empty value included) gets its context and repo span injected.
C30_SpanCreationNeverFails ==
    \A r \in Requests :
        Arrived(r) =>
            /\ NoCreationFailure(r)
            /\ (Readable(r, X_EXECUTION_ID) /\ Readable(r, X_EXECUTION_PARENT_SPAN_ID))
                   => Injected(r)

\* in enforcing mode a request whose parent-span-id header is there with the
\* empty value went through with a repo span built on it, while another
\* request was rejected
C30_Witness ==
    /\ config.enforce
    /\ \E r \in Requests :
           /\ Readable(r, X_EXECUTION_ID)
           /\ reqs[r].headers[X_EXECUTION_PARENT_SPAN_ID] = Some(<<>>)
           /\ reqs[r].pc = "done"
           /\ Injected(r)
           /\ reqs[r].ext.span.val.parent_span_id = ""
    /\ \E r \in Requests : reqs[r].pc = "rejected"

----------------------------------------------------------------------------
(* A claim about the Cancelled status, checked under Spec *)

\* The headers of a request that carries an execution id and a parent span id
ExecutionHeaders ==
    [h \in {X_EXECUTION_ID, X_EXECUTION_PARENT_SPAN_ID, X_EXECUTION_REPO_NAME} |->
        CASE h = X_EXECUTION_ID -> Some(<<101, 49>>)
          [] h = X_EXECUTION_PARENT_SPAN_ID -> Some(<<99, 49>>)
          [] OTHER -> None]

\* C29: a built span is Cancelled only if build() returned it Cancelled, which
\* it does only for a chain that set that status; complete(), fail(),
\* record_event() and attach_artifact() never make a span Cancelled, and the
\* repo span the middleware injects, in either mode, is Running.
C29_CancelledOnlyByBuild ==
    phase = "built" =>
        /\ buildRes.val.status = "Cancelled" => builder.status = "Cancelled"
        /\ span.val.status = "Cancelled" => buildRes.val.status = "Cancelled"
        /\ \A cfg \in {config_new("llm-observatory"), config_permissive("llm-observatory")} :
               LET m == execution_context_middleware(cfg, ExecutionHeaders, 0, now)
               IN /\ m.outcome = "next" /\ m.ext.span.some
                  /\ m.ext.span.val.status = "Running"

\* a span built Running was failed and then completed; it is not Cancelled
C29_Witness ==
    /\ phase = "built" /\ nops = 2
    /\ buildRes.val.status = "Running"
    /\ last.op = "complete" /\ last.was.status = "Failed"
    /\ span.val.status = "Completed"

----------------------------------------------------------------------------
(* SpecWire: a span or a result is written with serde_json and read back *)

ReferenceArtifact ==
    [Artifact("a2", "s1") EXCEPT
        !.content = [content_location |-> "reference", uri |-> "s3://bucket/a2"],
        !.metadata = MapInsert({}, "origin", JStr("upload"))]

\* Builder chains that set the four required fields and any of the others
WireBuilders ==
    {[DefaultBuilder EXCEPT !.span_id = Some("s1"),
                            !.execution_id = Some("e1"),
                            !.parent_span_id = Some(p),
                            !.kind = Some(k),
                            !.repo_name = Some("r1"),
                            !.agent_name = an,
                            !.status = st,
                            !.start_time = Some(0),
                            !.end_time = et,
                            !.artifacts = arts,
                            !.events = evs,
                            !.attributes = attrs,
                            !.error_message = em] :
        p \in ParentIds, k \in Kinds, an \in {None, Some("test-agent")},
        st \in Statuses, et \in {None} \cup {Some(t) : t \in Times},
        arts \in {<<>>, <<Artifact("a1", "s1"), ReferenceArtifact>>},
        evs \in {<<>>, <<ExecutionEvent("built-in", 0, {}),
                        ExecutionEvent("started_processing", MaxTime,
                                       MapInsert({}, "step", JStr("1")))>>},
        attrs \in {{}, MapInsert({}, "key", JStr("value"))},
        em \in {None} \cup {Some(m) : m \in ErrorTexts}}

\* The spans build() returns for them
WireSpans ==
    {build(b, "uuid-1", 0).val : b \in {c \in WireBuilders : build(c, "uuid-1", 0).ok}}

\* The ExecutionResult values assembled from one span: a fresh one without
\* agent spans, and validated ones with the span as repo span and as agent span
ResultsOver(s) ==
    {new_result(s, <<>>), validate(new_result(s, <<s>>)), validate(new_result(s, <<s, s>>))}

\* Results over the spans without events and attributes
WireResults ==
    UNION {ResultsOver(s) : s \in {x \in WireSpans : x.events = <<>> /\ x.attributes = {}}}

WireValues ==
    {[type |-> "ExecutionSpan", v |-> s] : s \in WireSpans}
    \cup {[type |-> "ExecutionResult", v |-> r] : r \in WireResults}

InitWire ==
    /\ value \in {Some(x) : x \in WireValues}
    /\ json = None /\ back = None
    /\ SpanIdle /\ ResIdle /\ MwIdle

\* serde_json::to_value(&span)
ToJsonSpan ==
    /\ value.val.type = "ExecutionSpan" /\ ~json.some
    /\ json' = Some(serialize_span(value.val.v))
    /\ UNCHANGED <<value, back, spanVars, resVars, mwVars>>

\* serde_json::to_value(&result)
ToJsonResult ==
    /\ value.val.type = "ExecutionResult" /\ ~json.some
    /\ json' = Some(serialize_result(value.val.v))
    /\ UNCHANGED <<value, back, spanVars, resVars, mwVars>>

\* serde_json::from_value::<ExecutionSpan>(json)
FromJsonSpan ==
    /\ value.val.type = "ExecutionSpan" /\ json.some /\ ~back.some
    /\ back' = Some(deserialize_span(json.val))
    /\ UNCHANGED <<value, json, spanVars, resVars, mwVars>>

\* serde_json::from_value::<ExecutionResult>(json)
FromJsonResult ==
    /\ value.val.type = "ExecutionResult" /\ json.some /\ ~back.some
    /\ back' = Some(deserialize_result(json.val))
    /\ UNCHANGED <<value, json, spanVars, resVars, mwVars>>

NextWire == ToJsonSpan \/ ToJsonResult \/ FromJsonSpan \/ FromJsonResult

SpecWire == InitWire /\ [][NextWire]_vars

----------------------------------------------------------------------------
(* Claims about the wire form, checked under SpecWire *)

OptionalSpanFields == {"agent_name", "end_time", "duration_ms", "error_message"}

\* the JSON object of a span has no key for any of its optional fields that
\* is None
NoneFieldsAbsent(s, w) == \A f \in OptionalSpanFields : ~s[f].some => ~HasKey(w, f)

\* C19: serializing a span or a result to JSON and deserializing the JSON
\* gives the value back, and each of agent_name, end_time, duration_ms,
\* error_message and total_duration_ms that is None has no key in the JSON
\* object (it is not written as null).
C19_RoundTrip ==
    /\ (json.some /\ value.val.type = "ExecutionSpan") =>
           NoneFieldsAbsent(value.val.v, json.val.v)
    /\ (json.some /\ value.val.type = "ExecutionResult") =>
           LET r == value.val.v
               w == json.val.v
           IN /\ ~r.total_duration_ms.some => ~HasKey(w, "total_duration_ms")
              /\ NoneFieldsAbsent(r.repo_span, Get(w, "repo_span").v)
              /\ \A i \in 1..Len(r.agent_spans) :
                     NoneFieldsAbsent(r.agent_spans[i], Get(w, "agent_spans").v[i].v)
    /\ back.some => back.val = Ok(value.val.v)

\* a validated result over a completed Repo span without agent name or error
\* message, holding artifacts, was written and read back: its JSON has
\* total_duration_ms, and the repo span's object has end_time and duration_ms
\* but neither agent_name nor error_message
C19_Witness ==
    /\ back.some /\ back.val.ok
    /\ value.val.type = "ExecutionResult"
    /\ LET r == value.val.v
           w == json.val.v
       IN /\ Len(r.agent_spans) = 1 /\ r.total_artifacts >= 2
          /\ r.repo_span.kind = "Repo" /\ r.repo_span.status = "Completed"
          /\ ~r.repo_span.agent_name.some /\ ~r.repo_span.error_message.some
          /\ r.repo_span.end_time.some
          /\ HasKey(w, "total_duration_ms")
          /\ Get(Get(w, "repo_span").v, "status") = JStr("COMPLETED")
          /\ HasKey(Get(w, "repo_span").v, "end_time")
          /\ ~HasKey(Get(w, "repo_span").v, "agent_name")
          /\ ~HasKey(Get(w, "repo_span").v, "error_message")
          /\ back.val.val = r

====
